---- MODULE Spec2Model ----
(***************************************************************************)
(* A model of the js-chain-libs binding layer (src/src/lib.rs).            *)
(*                                                                         *)
(* lib.rs is a thin layer of wrapper types over the chain-libs crates      *)
(* (chain_impl_mockchain, chain_addr, chain_crypto).  Each wrapper method  *)
(* is modelled from lib.rs; the chain-libs primitive it delegates to is    *)
(* modelled from the specification and kept in a definition of its own,    *)
(* named after the library function.                                       *)
(*                                                                         *)
(* The program is a library of synchronous operations, so the state        *)
(* machine is a caller's session: every action is one call of one public   *)
(* operation with inputs drawn from a bounded set, and the state records   *)
(* the call (op, args), what it returned (res) and, when the call uses the *)
(* result of the call before it, that call (prev).  One specification per  *)
(* component keeps the state spaces apart.                                 *)
(***************************************************************************)
EXTENDS Integers, Sequences, FiniteSets, TLC

VARIABLES op, args, res, prev

vars == <<op, args, res, prev>>

(***************************************************************************)
(* Results: Rust's Result<T, JsValue> and Option<T>.                       *)
(***************************************************************************)
Ok(v) == [ok |-> TRUE, val |-> v]

Err(e) == [ok |-> FALSE, err |-> e]

Some(v) == [val |-> v, some |-> TRUE]

None == [some |-> FALSE]

NoCall == [op |-> "none", args |-> <<>>, res |-> <<>>]

ThisCall == [op |-> op, args |-> args, res |-> res]

\* One call of a public operation o with arguments a returning r.  The call
\* before it is remembered when this call continues it: when it takes what
\* that call returned, or repeats it.
Call(o, a, r, continues) ==
    /\ op' = o
    /\ args' = a
    /\ res' = r
    /\ prev' = IF continues THEN ThisCall ELSE NoCall

InitSession ==
    /\ op = "none"
    /\ args = <<>>
    /\ res = <<>>
    /\ prev = NoCall

Min(a, b) == IF a <= b THEN a ELSE b

(***************************************************************************)
(* Value: an unsigned 64-bit amount.  The model checker's integers are     *)
(* narrower than 64 bits, so the width is scaled: U64Max stands for        *)
(* u64::MAX and every Value is in 0..U64Max.                               *)
(***************************************************************************)
U64Max == 1000000

ValueInputs == {0, 1, 2, U64Max - 1, U64Max}

\* chain_impl_mockchain::value::Value, impl Add: Err(Overflow) rather than wrap.
value_add(a, b) ==
    IF a + b > U64Max THEN Err("ValueError::Overflow") ELSE Ok(a + b)

\* chain_impl_mockchain::value::Value, impl Sub: Err(NegativeAmount) rather than wrap.
value_sub(a, b) ==
    IF b > a THEN Err("ValueError::NegativeAmount") ELSE Ok(a - b)

\* Result::map_err(|e| JsValue::from_str(&format!("{}", e))).map(Value)
map_err_js(r) == IF r.ok THEN Ok(r.val) ELSE Err(r.err)

\* A checked_add that wraps around instead of failing.
checked_add_wrapping(a, b) == Ok((a + b) % (U64Max + 1))

\* Value::checked_add
checked_add(a, b) == map_err_js(value_add(a, b))

\* Value::checked_sub
checked_sub(a, b) == map_err_js(value_sub(a, b))

CheckedAdd ==
    \E a \in ValueInputs, b \in ValueInputs :
        Call("checked_add", <<a, b>>, checked_add(a, b), FALSE)

\* The minuend is a fresh Value or the Value a checked_add has just returned.
CheckedSub ==
    \E a \in ValueInputs \cup (IF op = "checked_add" /\ res.ok THEN {res.val} ELSE {}),
       b \in ValueInputs :
        Call("checked_sub", <<a, b>>, checked_sub(a, b),
             op = "checked_add" /\ res.ok /\ res.val = a)

NextValue == CheckedAdd \/ CheckedSub

SpecValue == InitSession /\ [][NextValue]_vars

\* C1: checked_add(a, b) is an error when a + b exceeds u64::MAX and a + b
\* otherwise; checked_sub(a, b) is an error when b > a and a - b otherwise;
\* and a checked_sub by b of a successful checked_add(a, b) returns a.
C1_NoWrap ==
    /\ op = "checked_add" =>
          /\ res.ok <=> args[1] + args[2] <= U64Max
          /\ res.ok => res.val = args[1] + args[2]
    /\ op = "checked_sub" =>
          /\ res.ok <=> args[2] <= args[1]
          /\ res.ok => res.val = args[1] - args[2] /\ res.val \in 0..U64Max
    /\ (/\ op = "checked_sub"
        /\ prev.op = "checked_add"
        /\ prev.res.ok
        /\ args = <<prev.res.val, prev.args[2]>>)
          => res = Ok(prev.args[1])

\* A checked_add that reached u64::MAX exactly was undone by checked_sub.
C1_Witness ==
    /\ op = "checked_sub"
    /\ prev.op = "checked_add"
    /\ prev.res = Ok(U64Max)
    /\ prev.args[2] > 0
    /\ args = <<prev.res.val, prev.args[2]>>
    /\ res = Ok(prev.args[1])

(***************************************************************************)
(* Bip32 keys.  The curve arithmetic is the library's; it is modelled by   *)
(* its algebra: a secret key is a scalar k of a cyclic group of order      *)
(* GroupOrder with generator Generator, its public key is the point        *)
(* Generator * k, and each key carries a chain code.  A derivation index   *)
(* is a u32 scaled to IndexBits bits; its top bit marks a hard index.      *)
(***************************************************************************)
GroupOrder == 5

Generator == 2

ChainCodeCount == 2

IndexBits == 3

RECURSIVE Pow2(_)

Pow2(n) == IF n = 0 THEN 1 ELSE 2 * Pow2(n - 1)

\* u32: every derivation index.
Indices == 0 .. (Pow2(IndexBits) - 1)

\* 0x80000000, the first hard derivation index.
HARD_START == Pow2(IndexBits - 1)

ChainCodes == 0 .. (ChainCodeCount - 1)

Bip32PrivateKeys == [k : 0 .. (GroupOrder - 1), cc : ChainCodes]

Bip32PublicKeys == [cc : ChainCodes, p : 0 .. (GroupOrder - 1)]

\* The keyed hash of the derivation (HMAC over tag, key material, index),
\* left half: the scalar added to the parent key.
derive_z(tag, material, cc, index) ==
    (5 * material + 3 * cc + 2 * index + tag + 1) % GroupOrder

\* Right half: the child's chain code.
derive_cc(tag, material, cc, index) ==
    (material + cc + index + tag) % ChainCodeCount

\* chain_crypto: SecretKey<Ed25519Bip32>::to_public
sk_to_public(sk) == [cc |-> sk.cc, p |-> (Generator * sk.k) % GroupOrder]

\* chain_crypto::derive::derive_sk_ed25519: a hard index hashes the secret
\* key, a soft index hashes the public key; the child scalar is k + 8z.
derive_sk_ed25519(sk, index) ==
    LET hard == index >= HARD_START
        material == IF hard THEN sk.k ELSE sk_to_public(sk).p
        tag == IF hard THEN 0 ELSE 2
    IN  [k  |-> (sk.k + 8 * derive_z(tag, material, sk.cc, index)) % GroupOrder,
         cc |-> derive_cc(tag, material, sk.cc, index)]

\* chain_crypto::derive::derive_pk_ed25519: only a soft index; the child
\* point is P + 8z * Generator.
derive_pk_ed25519(pk, index) ==
    IF index >= HARD_START
    THEN Err("ExpectedSoftDerivation")
    ELSE Ok([cc |-> derive_cc(2, pk.p, pk.cc, index),
             p  |-> (pk.p + 8 * derive_z(2, pk.p, pk.cc, index) * Generator) % GroupOrder])

\* A derive that passes the neighbouring index to the library.
Bip32PrivateKey_derive_next(sk, index) ==
    derive_sk_ed25519(sk, (index + 1) % Pow2(IndexBits))

\* Bip32PrivateKey::derive
Bip32PrivateKey_derive(sk, index) == derive_sk_ed25519(sk, index)

\* Bip32PrivateKey::to_public
Bip32PrivateKey_to_public(sk) == sk_to_public(sk)

\* A derive that clears the hard bit before calling the library.
Bip32PublicKey_derive_masked(pk, index) ==
    map_err_js(derive_pk_ed25519(pk, index % HARD_START))

\* Bip32PublicKey::derive
Bip32PublicKey_derive(pk, index) == map_err_js(derive_pk_ed25519(pk, index))

Bip32PrivateKeyDerive ==
    \E sk \in Bip32PrivateKeys, index \in Indices :
        Call("Bip32PrivateKey.derive", <<sk, index>>, Bip32PrivateKey_derive(sk, index),
             op = "Bip32PrivateKey.derive" /\ args = <<sk, index>>)

Bip32PrivateKeyToPublic ==
    \E sk \in Bip32PrivateKeys :
        Call("Bip32PrivateKey.to_public", <<sk>>, Bip32PrivateKey_to_public(sk),
             op = "Bip32PrivateKey.derive" /\ res = sk)

Bip32PublicKeyDerive ==
    \E pk \in Bip32PublicKeys, index \in Indices :
        Call("Bip32PublicKey.derive", <<pk, index>>, Bip32PublicKey_derive(pk, index),
             \/ op = "Bip32PrivateKey.to_public" /\ res = pk
             \/ op = "Bip32PublicKey.derive" /\ args = <<pk, index>>)

NextKey == Bip32PrivateKeyDerive \/ Bip32PrivateKeyToPublic \/ Bip32PublicKeyDerive

SpecKey == InitSession /\ [][NextKey]_vars

\* C2: Bip32PublicKey.derive is an error exactly for the hard indices
\* (index >= 0x80000000), and Bip32PrivateKey.derive returns a key for
\* every index.
C2_HardDerivation ==
    /\ op = "Bip32PublicKey.derive" =>
          /\ res.ok <=> args[2] < HARD_START
          /\ res.ok => res.val \in Bip32PublicKeys
    /\ op = "Bip32PrivateKey.derive" => res \in Bip32PrivateKeys

\* The public key of a private key was refused the first hard index.
C2_Witness ==
    /\ op = "Bip32PublicKey.derive"
    /\ args[2] = HARD_START
    /\ ~res.ok
    /\ prev.op = "Bip32PrivateKey.to_public"
    /\ args[1] = prev.res

\* C3: for a soft index i, k.to_public().derive(i) is k.derive(i).to_public(),
\* whichever of the two paths the caller takes; and a repeated derive call
\* returns what the first returned.
C3_SoftDerivationCommutes ==
    /\ (/\ op = "Bip32PublicKey.derive"
        /\ prev.op = "Bip32PrivateKey.to_public"
        /\ args[1] = prev.res
        /\ args[2] < HARD_START)
          => res = Ok(Bip32PrivateKey_to_public(Bip32PrivateKey_derive(prev.args[1], args[2])))
    /\ (/\ op = "Bip32PrivateKey.to_public"
        /\ prev.op = "Bip32PrivateKey.derive"
        /\ args[1] = prev.res
        /\ prev.args[2] < HARD_START)
          => Ok(res) = Bip32PublicKey_derive(Bip32PrivateKey_to_public(prev.args[1]),
                                             prev.args[2])
    /\ (/\ op \in {"Bip32PrivateKey.derive", "Bip32PublicKey.derive"}
        /\ prev.op = op
        /\ prev.args = args)
          => res = prev.res

\* The public key of k was soft-derived into a child different from it.
C3_Witness ==
    /\ op = "Bip32PublicKey.derive"
    /\ prev.op = "Bip32PrivateKey.to_public"
    /\ args[1] = prev.res
    /\ args[2] < HARD_START
    /\ res.ok
    /\ res.val.p # args[1].p
    /\ res.val = Bip32PrivateKey_to_public(Bip32PrivateKey_derive(prev.args[1], args[2]))

(***************************************************************************)
(* Addresses.  A public key is PUBLIC_KEY_SIZE bytes, a merkle root        *)
(* HASH_SIZE bytes; a byte is a number in 0..255 and a string a sequence   *)
(* of character codes.                                                     *)
(***************************************************************************)
PUBLIC_KEY_SIZE == 32

HASH_SIZE == 32

KeyCount == 2

Range(f) == {f[i] : i \in DOMAIN f}

Take(q, n) == SubSeq(q, 1, Min(n, Len(q)))

Drop(q, n) == SubSeq(q, n + 1, Len(q))

\* The n bytes seed*1, seed*2, .. (mod 256).
BytesOf(seed, n) == [i \in 1 .. n |-> (seed * i) % 256]

\* PublicKey(crypto::PublicKey<Ed25519>): the keys the caller holds.
PublicKeyInputs == {BytesOf(251 - 2 * j, PUBLIC_KEY_SIZE) : j \in 1 .. KeyCount}

\* merkle_root: &[u8] arguments, of the right length and of wrong ones.
MerkleRootInputs ==
    {BytesOf(7, n) : n \in {0, HASH_SIZE - 1, HASH_SIZE, HASH_SIZE + 1}}
        \cup {BytesOf(9, HASH_SIZE)}

\* enum AddressDiscrimination
AddressDiscrimination == {"Production", "Test"}

\* enum AddressKind
AddressKind == {"Single", "Group", "Account", "Multisig"}

\* impl Into<chain_addr::Discrimination> for AddressDiscrimination
discrimination_into(d) ==
    CASE d = "Production" -> "chain_addr::Discrimination::Production"
      [] d = "Test" -> "chain_addr::Discrimination::Test"

\* impl From<chain_addr::Discrimination> for AddressDiscrimination
discrimination_from(d) ==
    CASE d = "chain_addr::Discrimination::Production" -> "Production"
      [] d = "chain_addr::Discrimination::Test" -> "Test"

\* chain_addr::Address(Discrimination, Kind)
chain_addr_Address(d, k) == [discrimination |-> d, kind |-> k]

Kind_Single(key) == [tag |-> "Kind::Single", spending |-> key]

Kind_Group(key, delegation) ==
    [tag |-> "Kind::Group", spending |-> key, account |-> delegation]

Kind_Account(key) == [tag |-> "Kind::Account", account |-> key]

Kind_Multisig(root) == [tag |-> "Kind::Multisig", root |-> root]

\* chain_addr::Address::to_kind_type
to_kind_type(a) ==
    CASE a.kind.tag = "Kind::Single" -> "KindType::Single"
      [] a.kind.tag = "Kind::Group" -> "KindType::Group"
      [] a.kind.tag = "Kind::Account" -> "KindType::Account"
      [] a.kind.tag = "Kind::Multisig" -> "KindType::Multisig"

\* impl From<chain_addr::KindType> for AddressKind
kind_from(k) ==
    CASE k = "KindType::Single" -> "Single"
      [] k = "KindType::Group" -> "Group"
      [] k = "KindType::Account" -> "Account"
      [] k = "KindType::Multisig" -> "Multisig"

\* Address::single_from_public_key
Address_single_from_public_key(key, discrimination) ==
    chain_addr_Address(discrimination_into(discrimination), Kind_Single(key))

\* Address::delegation_from_public_key
Address_delegation_from_public_key(key, delegation, discrimination) ==
    chain_addr_Address(discrimination_into(discrimination), Kind_Group(key, delegation))

\* Address::account_from_public_key
Address_account_from_public_key(key, discrimination) ==
    chain_addr_Address(discrimination_into(discrimination), Kind_Account(key))

\* A multisig_from_merkle_root that pads a short root with zeros
Address_multisig_from_merkle_root_padded(merkle_root, discrimination) ==
    IF Len(merkle_root) <= 32
    THEN Ok(chain_addr_Address(discrimination_into(discrimination),
                Kind_Multisig(merkle_root \o [i \in 1 .. 32 - Len(merkle_root) |-> 0])))
    ELSE Err("Invalid merkle root size")

\* Address::multisig_from_merkle_root
Address_multisig_from_merkle_root(merkle_root, discrimination) ==
    IF Len(merkle_root) = 32
    THEN Ok(chain_addr_Address(discrimination_into(discrimination),
                               Kind_Multisig(merkle_root)))
    ELSE Err("Invalid merkle root size")

\* Every Address the constructors build from the caller's keys.
Addresses ==
    UNION {
        {Address_single_from_public_key(k, d) : k \in PublicKeyInputs}
        \cup {Address_delegation_from_public_key(k, k2, d) :
                  k \in PublicKeyInputs, k2 \in PublicKeyInputs}
        \cup {Address_account_from_public_key(k, d) : k \in PublicKeyInputs}
        \cup {Address_multisig_from_merkle_root(r, d).val :
                  r \in {m \in MerkleRootInputs : Len(m) = 32}}
        : d \in AddressDiscrimination}

\* Address::get_discrimination
Address_get_discrimination(a) == discrimination_from(a.discrimination)

\* Address::get_kind
Address_get_kind(a) == kind_from(to_kind_type(a))

\* struct SingleAddress(Discrimination, PublicKey)
SingleAddress(d, key) == [type |-> "SingleAddress", f0 |-> d, f1 |-> key]

\* struct GroupAddress(Discrimination, PublicKey, PublicKey)
GroupAddress(d, key, account) ==
    [type |-> "GroupAddress", f0 |-> d, f1 |-> key, f2 |-> account]

\* struct AccountAddress(Discrimination, PublicKey)
AccountAddress(d, key) == [type |-> "AccountAddress", f0 |-> d, f1 |-> key]

\* struct MultisigAddress(Discrimination, [u8; 32])
MultisigAddress(d, root) == [type |-> "MultisigAddress", f0 |-> d, f1 |-> root]

\* Address::to_single_address
Address_to_single_address(a) ==
    IF a.kind.tag = "Kind::Single"
    THEN Some(SingleAddress(a.discrimination, a.kind.spending))
    ELSE None

\* Address::to_group_address
Address_to_group_address(a) ==
    IF a.kind.tag = "Kind::Group"
    THEN Some(GroupAddress(a.discrimination, a.kind.spending, a.kind.account))
    ELSE None

\* A to_account_address that matches the other one-key kind.
Address_to_account_address_single(a) ==
    IF a.kind.tag = "Kind::Single"
    THEN Some(AccountAddress(a.discrimination, a.kind.spending))
    ELSE None

\* Address::to_account_address
Address_to_account_address(a) ==
    IF a.kind.tag = "Kind::Account"
    THEN Some(AccountAddress(a.discrimination, a.kind.account))
    ELSE None

\* Address::to_multisig_address
Address_to_multisig_address(a) ==
    IF a.kind.tag = "Kind::Multisig"
    THEN Some(MultisigAddress(a.discrimination, a.kind.root))
    ELSE None

\* SingleAddress::get_spending_key, GroupAddress::get_spending_key
get_spending_key(v) == v.f1

\* GroupAddress::get_account_key, AccountAddress::get_account_key
get_account_key(v) == IF v.type = "GroupAddress" THEN v.f2 ELSE v.f1

\* MultisigAddress::get_merkle_root
get_merkle_root(v) == v.f1

(***************************************************************************)
(* The binary form of an address (chain_addr): one tag byte, the           *)
(* discrimination in its top bit and the kind in the other seven, then     *)
(* the keys of the kind.                                                   *)
(***************************************************************************)
ADDR_KIND_SINGLE == 3

ADDR_KIND_GROUP == 4

ADDR_KIND_ACCOUNT == 5

ADDR_KIND_MULTISIG == 6

ADDR_TEST_BIT == 128

\* chain_addr: the kind bits of a Kind.
kind_value(k) ==
    CASE k.tag = "Kind::Single" -> ADDR_KIND_SINGLE
      [] k.tag = "Kind::Group" -> ADDR_KIND_GROUP
      [] k.tag = "Kind::Account" -> ADDR_KIND_ACCOUNT
      [] k.tag = "Kind::Multisig" -> ADDR_KIND_MULTISIG

\* chain_addr: the number of bytes after the tag byte, by kind bits.
kind_payload_size(kv) ==
    CASE kv = ADDR_KIND_SINGLE -> PUBLIC_KEY_SIZE
      [] kv = ADDR_KIND_GROUP -> 2 * PUBLIC_KEY_SIZE
      [] kv = ADDR_KIND_ACCOUNT -> PUBLIC_KEY_SIZE
      [] kv = ADDR_KIND_MULTISIG -> HASH_SIZE
      [] OTHER -> -1

\* chain_addr::Address, property::Serialize
addr_serialize(a) ==
    LET first == kind_value(a.kind)
                 + (IF a.discrimination = "chain_addr::Discrimination::Test"
                    THEN ADDR_TEST_BIT ELSE 0)
        payload == CASE a.kind.tag = "Kind::Single" -> a.kind.spending
                     [] a.kind.tag = "Kind::Group" -> a.kind.spending \o a.kind.account
                     [] a.kind.tag = "Kind::Account" -> a.kind.account
                     [] a.kind.tag = "Kind::Multisig" -> a.kind.root
    IN  <<first>> \o payload

\* chain_addr: the Address that a tag byte and the bytes after it stand for.
addr_of_bytes(first, payload) ==
    LET kv == first % ADDR_TEST_BIT
        d == IF first >= ADDR_TEST_BIT
             THEN "chain_addr::Discrimination::Test"
             ELSE "chain_addr::Discrimination::Production"
        k == CASE kv = ADDR_KIND_SINGLE -> Kind_Single(payload)
               [] kv = ADDR_KIND_GROUP ->
                      Kind_Group(Take(payload, PUBLIC_KEY_SIZE), Drop(payload, PUBLIC_KEY_SIZE))
               [] kv = ADDR_KIND_ACCOUNT -> Kind_Account(payload)
               [] kv = ADDR_KIND_MULTISIG -> Kind_Multisig(payload)
    IN  chain_addr_Address(d, k)

\* chain_addr::Address, property::Deserialize: reads the tag byte, then the
\* bytes of the kind; what follows them is not read.
addr_deserialize(bytes) ==
    IF Len(bytes) = 0 THEN Err("failed to fill whole buffer")
    ELSE LET size == kind_payload_size(bytes[1] % ADDR_TEST_BIT)
         IN  IF size < 0 THEN Err("Unknown Kind of address")
             ELSE IF Len(bytes) - 1 < size THEN Err("failed to fill whole buffer")
             ELSE Ok(addr_of_bytes(bytes[1], SubSeq(bytes, 2, size + 1)))

\* chain_addr::Address::from_bytes: the whole slice is one address.
addr_from_bytes(bytes) ==
    IF Len(bytes) = 0 THEN Err("InvalidAddress")
    ELSE LET size == kind_payload_size(bytes[1] % ADDR_TEST_BIT)
         IN  IF size < 0 THEN Err("InvalidKind")
             ELSE IF Len(bytes) - 1 # size THEN Err("InvalidAddress")
             ELSE Ok(addr_of_bytes(bytes[1], Drop(bytes, 1)))

\* js_sys::Uint8Array::copy_to into a zeroed slice of n bytes.
copy_to_slice(bytes, n) == [i \in 1 .. n |-> IF i <= Len(bytes) THEN bytes[i] ELSE 0]

\* A from_bytes whose slice is one byte short of the array.
Address_from_bytes_short(bytes) ==
    map_err_js(addr_deserialize(copy_to_slice(bytes, Len(bytes) - 1)))

\* Address::from_bytes
Address_from_bytes(bytes) ==
    map_err_js(addr_deserialize(copy_to_slice(bytes, Len(bytes))))

\* Address::as_bytes
Address_as_bytes(a) == addr_serialize(a)

(***************************************************************************)
(* The readable form of an address: bech32 (prefix, separator '1', the     *)
(* bytes in base 32, six checksum characters).  The codec is the bech32    *)
(* crate's; a weighted sum stands for its BCH checksum.                    *)
(***************************************************************************)
BECH32_SEP == 49

BECH32_CHECKSUM_LEN == 6

\* "qpzry9x8gf2tvdw0s3jn54khce6mua7l"
BECH32_CHARSET ==
    <<113, 112, 122, 114, 121, 57, 120, 56, 103, 102, 50, 116, 118, 100, 119, 48,
      115, 51, 106, 110, 53, 52, 107, 104, 99, 101, 54, 109, 117, 97, 55, 108>>

\* Bit i (from 0, most significant first) of a sequence of w-bit numbers,
\* 0 past its end.
BitAt(q, w, i) ==
    IF i >= w * Len(q) THEN 0
    ELSE (q[(i \div w) + 1] \div Pow2(w - 1 - (i % w))) % 2

\* The number whose w bits are bits i .. i+w-1 of the v-bit numbers of q.
Regroup(q, v, w, i) ==
    LET b(t) == BitAt(q, v, i + t) * Pow2(w - 1 - t)
    IN  IF w = 5 THEN b(0) + b(1) + b(2) + b(3) + b(4)
        ELSE b(0) + b(1) + b(2) + b(3) + b(4) + b(5) + b(6) + b(7)

\* bech32::ToBase32: 8-bit to 5-bit groups, the last one padded with zeros.
to_base32(bytes) ==
    [j \in 1 .. ((8 * Len(bytes) + 4) \div 5) |-> Regroup(bytes, 8, 5, 5 * (j - 1))]

\* bech32::FromBase32: 5-bit to 8-bit groups; the padding is less than five
\* bits and zero.
from_base32(data) ==
    LET n == (5 * Len(data)) \div 8
        pad == (5 * Len(data)) % 8
    IN  IF pad >= 5 \/ \E i \in 8 * n .. (5 * Len(data) - 1) : BitAt(data, 5, i) # 0
        THEN Err("InvalidPadding")
        ELSE Ok([j \in 1 .. n |-> Regroup(data, 5, 8, 8 * (j - 1))])

\* bech32: the prefix as it enters the checksum.
hrp_expand(hrp) ==
    [i \in 1 .. Len(hrp) |-> hrp[i] \div 32] \o <<0>> \o [i \in 1 .. Len(hrp) |-> hrp[i] % 32]

RECURSIVE WeightedSum(_, _, _, _)

\* The sum of (i + j) * v[i] over i in lo .. hi, by halves.
WeightedSum(v, j, lo, hi) ==
    IF lo > hi THEN 0
    ELSE IF lo = hi THEN (lo + j) * v[lo]
    ELSE WeightedSum(v, j, lo, (lo + hi) \div 2)
         + WeightedSum(v, j, (lo + hi) \div 2 + 1, hi)

\* bech32: the six checksum symbols over the prefix and the data.
bech32_checksum(hrp, data) ==
    LET v == hrp_expand(hrp) \o data
    IN  [j \in 1 .. BECH32_CHECKSUM_LEN |-> (j + WeightedSum(v, j, 1, Len(v))) % 32]

\* bech32::Bech32 as Display
bech32_encode(hrp, data) ==
    LET symbols == data \o bech32_checksum(hrp, data)
    IN  hrp \o <<BECH32_SEP>> \o [i \in 1 .. Len(symbols) |-> BECH32_CHARSET[symbols[i] + 1]]

\* bech32::Bech32 as FromStr: splits at the last separator.
bech32_decode(str) ==
    LET seps == {i \in 1 .. Len(str) : str[i] = BECH32_SEP}
    IN  IF seps = {} THEN Err("MissingSeparator")
        ELSE
        LET at == CHOOSE i \in seps : \A j \in seps : j <= i
            hrp == SubSeq(str, 1, at - 1)
            chars == Drop(str, at)
        IN  IF Len(hrp) < 1 \/ Len(chars) < BECH32_CHECKSUM_LEN THEN Err("InvalidLength")
            ELSE IF \E i \in 1 .. Len(chars) : chars[i] \notin Range(BECH32_CHARSET)
            THEN Err("InvalidChar")
            ELSE
            LET symbols == [i \in 1 .. Len(chars) |->
                              (CHOOSE c \in 1 .. 32 : BECH32_CHARSET[c] = chars[i]) - 1]
                data == Take(symbols, Len(symbols) - BECH32_CHECKSUM_LEN)
            IN  IF Drop(symbols, Len(data)) # bech32_checksum(hrp, data)
                THEN Err("InvalidChecksum")
                ELSE Ok([data |-> data, hrp |-> hrp])

\* chain_addr::AddressReadable::from_address
AddressReadable_from_address(prefix, a) ==
    bech32_encode(prefix, to_base32(addr_serialize(a)))

\* chain_addr::AddressReadable::from_string_anyprefix, then to_address
AddressReadable_from_string_anyprefix(str) ==
    LET r == bech32_decode(str)
    IN  IF ~r.ok THEN r
        ELSE LET bytes == from_base32(r.val.data)
             IN  IF ~bytes.ok THEN bytes ELSE addr_from_bytes(bytes.val)

\* Address::to_string
Address_to_string(a, prefix) == AddressReadable_from_address(prefix, a)

\* "ca"
PREFIX_CA == <<99, 97>>

\* A from_string that expects the production prefix instead of any prefix.
Address_from_string_ca(str) ==
    LET r == bech32_decode(str)
    IN  IF r.ok /\ r.val.hrp # PREFIX_CA
        THEN Err("InvalidPrefix")
        ELSE map_err_js(AddressReadable_from_string_anyprefix(str))

\* Address::from_string
Address_from_string(str) == map_err_js(AddressReadable_from_string_anyprefix(str))

(***************************************************************************)
(* The address operations as calls of the session.                         *)
(***************************************************************************)
\* prefix: &str arguments: "ca", "ta" and "a1b" (the separator inside).
PrefixInputs == {PREFIX_CA, <<116, 97>>, <<97, 49, 98>>}

\* Every kind-specific address the projections return.
KindAddresses ==
    UNION {
        {x.val : x \in {r \in {Address_to_single_address(a), Address_to_group_address(a),
                               Address_to_account_address(a),
                               Address_to_multisig_address(a)} : r.some}}
        : a \in Addresses}

\* Two of the addresses, as the source of malformed inputs.
SampleAddresses ==
    {Address_single_from_public_key(k, "Test") : k \in PublicKeyInputs}
        \cup {Address_delegation_from_public_key(k, k, "Production") : k \in PublicKeyInputs}

\* bytes: Uint8Array arguments that are not the bytes of an address: empty,
\* cut short, cut to the tag byte, with an unknown kind in the tag byte; and
\* the bytes of an address followed by one more byte.
ByteInputs ==
    {<<>>}
        \cup UNION {
            LET b == Address_as_bytes(a)
            IN  {Take(b, Len(b) - 1), Take(b, 1), b \o <<0>>,
                 [b EXCEPT ![1] = 0], [b EXCEPT ![1] = 7], [b EXCEPT ![1] = 130]}
            : a \in SampleAddresses}

\* s: &str arguments that are not the string of an address: a character of
\* the data changed, the last character dropped, no separator, a character
\* outside the bech32 alphabet.
StringInputs ==
    UNION {
        LET str == Address_to_string(a, PREFIX_CA)
        IN  {[str EXCEPT ![5] = IF str[5] = 113 THEN 112 ELSE 113],
             Take(str, Len(str) - 1),
             Drop(str, 3),
             [str EXCEPT ![Len(str)] = 98]}
        : a \in SampleAddresses}

ConstructorOps ==
    {"Address.single_from_public_key", "Address.delegation_from_public_key",
     "Address.account_from_public_key"}

\* The call before returned the Address a.
Returned(a) ==
    \/ op \in ConstructorOps /\ res = a
    \/ op \in {"Address.multisig_from_merkle_root", "Address.from_bytes", "Address.from_string"}
       /\ res.ok /\ res.val = a

SingleFromPublicKey ==
    \E key \in PublicKeyInputs, d \in AddressDiscrimination :
        Call("Address.single_from_public_key", <<key, d>>,
             Address_single_from_public_key(key, d), FALSE)

DelegationFromPublicKey ==
    \E key \in PublicKeyInputs, delegation \in PublicKeyInputs, d \in AddressDiscrimination :
        Call("Address.delegation_from_public_key", <<key, delegation, d>>,
             Address_delegation_from_public_key(key, delegation, d), FALSE)

AccountFromPublicKey ==
    \E key \in PublicKeyInputs, d \in AddressDiscrimination :
        Call("Address.account_from_public_key", <<key, d>>,
             Address_account_from_public_key(key, d), FALSE)

MultisigFromMerkleRoot ==
    \E root \in MerkleRootInputs, d \in AddressDiscrimination :
        Call("Address.multisig_from_merkle_root", <<root, d>>,
             Address_multisig_from_merkle_root(root, d), FALSE)

AddressGetDiscrimination ==
    \E a \in Addresses :
        Call("Address.get_discrimination", <<a>>, Address_get_discrimination(a), Returned(a))

AddressGetKind ==
    \E a \in Addresses :
        Call("Address.get_kind", <<a>>, Address_get_kind(a), Returned(a))

ToSingleAddress ==
    \E a \in Addresses :
        Call("Address.to_single_address", <<a>>, Address_to_single_address(a), Returned(a))

ToGroupAddress ==
    \E a \in Addresses :
        Call("Address.to_group_address", <<a>>, Address_to_group_address(a), Returned(a))

ToAccountAddress ==
    \E a \in Addresses :
        Call("Address.to_account_address", <<a>>, Address_to_account_address(a), Returned(a))

ToMultisigAddress ==
    \E a \in Addresses :
        Call("Address.to_multisig_address", <<a>>, Address_to_multisig_address(a), Returned(a))

\* The call before projected an Address to the kind-specific address v.
Projected(v) ==
    /\ op \in {"Address.to_single_address", "Address.to_group_address",
               "Address.to_account_address", "Address.to_multisig_address"}
    /\ res.some
    /\ res.val = v

GetSpendingKey ==
    \E v \in {x \in KindAddresses : x.type \in {"SingleAddress", "GroupAddress"}} :
        Call("get_spending_key", <<v>>, get_spending_key(v), Projected(v))

GetAccountKey ==
    \E v \in {x \in KindAddresses : x.type \in {"GroupAddress", "AccountAddress"}} :
        Call("get_account_key", <<v>>, get_account_key(v), Projected(v))

GetMerkleRoot ==
    \E v \in {x \in KindAddresses : x.type = "MultisigAddress"} :
        Call("get_merkle_root", <<v>>, get_merkle_root(v), Projected(v))

AddressAsBytes ==
    \E a \in Addresses :
        Call("Address.as_bytes", <<a>>, Address_as_bytes(a), Returned(a))

AddressFromBytes ==
    \/ \E bytes \in ByteInputs :
           Call("Address.from_bytes", <<bytes>>, Address_from_bytes(bytes), FALSE)
    \/ /\ op = "Address.as_bytes"
       /\ Call("Address.from_bytes", <<res>>, Address_from_bytes(res), TRUE)

AddressToString ==
    \E a \in Addresses, prefix \in PrefixInputs :
        Call("Address.to_string", <<a, prefix>>, Address_to_string(a, prefix), FALSE)

AddressFromString ==
    \/ \E str \in StringInputs :
           Call("Address.from_string", <<str>>, Address_from_string(str), FALSE)
    \/ /\ op = "Address.to_string"
       /\ Call("Address.from_string", <<res>>, Address_from_string(res), TRUE)

NextAddr ==
    \/ SingleFromPublicKey
    \/ DelegationFromPublicKey
    \/ AccountFromPublicKey
    \/ MultisigFromMerkleRoot
    \/ AddressGetDiscrimination
    \/ AddressGetKind
    \/ ToSingleAddress
    \/ ToGroupAddress
    \/ ToAccountAddress
    \/ ToMultisigAddress
    \/ GetSpendingKey
    \/ GetAccountKey
    \/ GetMerkleRoot
    \/ AddressAsBytes
    \/ AddressFromBytes
    \/ AddressToString
    \/ AddressFromString

SpecAddr == InitSession /\ [][NextAddr]_vars

\* C4: Address.from_string of what a.to_string(p) returned succeeds and is
\* a, for every address a and every prefix p.
C4_StringRoundTrip ==
    (/\ op = "Address.from_string"
     /\ prev.op = "Address.to_string"
     /\ args[1] = prev.res)
        => /\ res = Ok(prev.args[1])
           /\ Address_get_discrimination(res.val) = Address_get_discrimination(prev.args[1])
           /\ Address_get_kind(res.val) = Address_get_kind(prev.args[1])

\* A Group test address written with the prefix that contains the separator
\* was read back.
C4_Witness ==
    /\ op = "Address.from_string"
    /\ prev.op = "Address.to_string"
    /\ args[1] = prev.res
    /\ prev.args[2] = <<97, 49, 98>>
    /\ Address_get_kind(prev.args[1]) = "Group"
    /\ Address_get_discrimination(prev.args[1]) = "Test"
    /\ res = Ok(prev.args[1])

ProjectionOps ==
    {"Address.to_single_address", "Address.to_group_address",
     "Address.to_account_address", "Address.to_multisig_address"}

\* The kind whose projection the operation o is.
KindOfProjection(o) ==
    CASE o = "Address.to_single_address" -> "Single"
      [] o = "Address.to_group_address" -> "Group"
      [] o = "Address.to_account_address" -> "Account"
      [] o = "Address.to_multisig_address" -> "Multisig"

\* What the projection o returns on the Address a.
Projection(o, a) ==
    CASE o = "Address.to_single_address" -> Address_to_single_address(a)
      [] o = "Address.to_group_address" -> Address_to_group_address(a)
      [] o = "Address.to_account_address" -> Address_to_account_address(a)
      [] o = "Address.to_multisig_address" -> Address_to_multisig_address(a)

\* The keys of an Address, in order.
KeysOf(a) ==
    CASE a.kind.tag = "Kind::Single" -> <<a.kind.spending>>
      [] a.kind.tag = "Kind::Group" -> <<a.kind.spending, a.kind.account>>
      [] a.kind.tag = "Kind::Account" -> <<a.kind.account>>
      [] a.kind.tag = "Kind::Multisig" -> <<a.kind.root>>

\* The keys of a kind-specific address, in order, read by its accessors.
KeysOfKindAddress(v) ==
    CASE v.type = "SingleAddress" -> <<get_spending_key(v)>>
      [] v.type = "GroupAddress" -> <<get_spending_key(v), get_account_key(v)>>
      [] v.type = "AccountAddress" -> <<get_account_key(v)>>
      [] v.type = "MultisigAddress" -> <<get_merkle_root(v)>>

\* C5: a projection of an Address a returns a value exactly when it is the
\* projection of a.get_kind(), so exactly one of the four does; the value
\* carries a's discrimination and keys; the spending key of the Single
\* address built from pk is pk, and to_account_address on it is none.
C5_KindProjections ==
    /\ op \in ProjectionOps =>
          /\ res.some <=> Address_get_kind(args[1]) = KindOfProjection(op)
          /\ res.some =>
                /\ discrimination_from(res.val.f0) = Address_get_discrimination(args[1])
                /\ KeysOfKindAddress(res.val) = KeysOf(args[1])
          /\ LET returned(o) == IF o = op THEN res.some ELSE Projection(o, args[1]).some
             IN  Cardinality({o \in ProjectionOps : returned(o)}) = 1
    /\ (/\ op = "get_spending_key"
        /\ prev.op = "Address.to_single_address"
        /\ args[1] = prev.res.val)
          => \A pk \in PublicKeyInputs, d \in AddressDiscrimination :
                prev.args[1] = Address_single_from_public_key(pk, d) => res = pk
    /\ (/\ op = "Address.to_account_address"
        /\ prev.op = "Address.single_from_public_key"
        /\ args[1] = prev.res)
          => res = None

\* The Single test address of pk was projected and its spending key read.
C5_Witness ==
    /\ op = "get_spending_key"
    /\ prev.op = "Address.to_single_address"
    /\ args[1] = prev.res.val
    /\ prev.args[1] = Address_single_from_public_key(res, "Test")
    /\ res \in PublicKeyInputs

\* The number of bytes after the tag byte, by kind.
PayloadLength(kind) ==
    CASE kind = "Single" -> 32
      [] kind = "Group" -> 64
      [] kind = "Account" -> 32
      [] kind = "Multisig" -> 32

\* C6: as_bytes is one tag byte and a payload of the length of the kind
\* (Single 32, Group 64, Account 32, Multisig 32); from_bytes of it is the
\* address; from_bytes is an error for an unknown tag and for an input
\* shorter than the kind's length.
C6_BinaryForm ==
    /\ op = "Address.as_bytes" =>
          Len(res) = 1 + PayloadLength(Address_get_kind(args[1]))
    /\ (/\ op = "Address.from_bytes"
        /\ prev.op = "Address.as_bytes"
        /\ args[1] = prev.res)
          => res = Ok(prev.args[1])
    /\ op = "Address.from_bytes" =>
          LET bytes == args[1]
              kinds == {k \in AddressKind :
                           \E a \in Addresses :
                               /\ Address_get_kind(a) = k
                               /\ Len(bytes) > 0
                               /\ Address_as_bytes(a)[1] % ADDR_TEST_BIT = bytes[1] % ADDR_TEST_BIT}
          IN  /\ kinds = {} => ~res.ok
              /\ \A k \in kinds : Len(bytes) < 1 + PayloadLength(k) => ~res.ok

\* The 65 bytes of a Group address were read back.
C6_Witness ==
    /\ op = "Address.from_bytes"
    /\ prev.op = "Address.as_bytes"
    /\ args[1] = prev.res
    /\ Len(args[1]) = 65
    /\ res = Ok(prev.args[1])

(***************************************************************************)
(* Delegation.  A PoolId is a hash of HASH_SIZE bytes; a part is a u8.     *)
(***************************************************************************)
MaxPools == 3

\* PoolId(chain::certificate::PoolId): the pool ids A, B, C of the caller.
PoolA == BytesOf(3, HASH_SIZE)

PoolB == BytesOf(5, HASH_SIZE)

PoolC == BytesOf(7, HASH_SIZE)

\* parts: u8 arguments.
PartsInputs == {3, 7}

\* PoolDelegationRatio::new
PoolDelegationRatio_new(pool, part) == [pool |-> pool, part |-> part]

\* Every sequence of at most n elements of S.
RECURSIVE SeqsUpTo(_, _)

SeqsUpTo(S, n) ==
    IF n = 0 THEN {<<>>}
    ELSE LET shorter == SeqsUpTo(S, n - 1)
         IN  shorter \cup {Append(q, x) : q \in {r \in shorter : Len(r) = n - 1}, x \in S}

\* PoolDelegationRatios: the collections the caller passes.
PoolDelegationRatiosInputs ==
    SeqsUpTo({PoolDelegationRatio_new(PoolA, 2), PoolDelegationRatio_new(PoolA, 7),
              PoolDelegationRatio_new(PoolB, 1), PoolDelegationRatio_new(PoolB, 2),
              PoolDelegationRatio_new(PoolC, 4), PoolDelegationRatio_new(PoolC, 1)}, MaxPools)

RECURSIVE SumParts(_)

\* The sum of the parts of a list of (pool, part) pairs.
SumParts(pairs) ==
    IF pairs = <<>> THEN 0 ELSE pairs[1][2] + SumParts(Tail(pairs))

\* chain::account::DelegationRatio::new: no value unless there are at least
\* two pools and the parts add up to parts.
chain_DelegationRatio_new(parts, pairs) ==
    IF Len(pairs) >= 2 /\ SumParts(pairs) = parts
    THEN Some([parts |-> parts, pools |-> pairs])
    ELSE None

\* A new that takes the total from the pools instead of from the caller.
DelegationRatio_new_summed(parts, pools) ==
    LET pairs == [i \in 1 .. Len(pools) |-> <<pools[i].pool, pools[i].part>>]
    IN  chain_DelegationRatio_new(SumParts(pairs), pairs)

\* DelegationRatio::new
DelegationRatio_new(parts, pools) ==
    LET pairs == [i \in 1 .. Len(pools) |-> <<pools[i].pool, pools[i].part>>]
    IN  chain_DelegationRatio_new(parts, pairs)

DelegationRatioNew ==
    \E parts \in PartsInputs, pools \in PoolDelegationRatiosInputs :
        Call("DelegationRatio.new", <<parts, pools>>, DelegationRatio_new(parts, pools), FALSE)

NextRatio == DelegationRatioNew

SpecRatio == InitSession /\ [][NextRatio]_vars

RECURSIVE SumOfPartFields(_)

\* The sum of the part fields of a PoolDelegationRatios collection.
SumOfPartFields(pools) ==
    IF pools = <<>> THEN 0 ELSE pools[1].part + SumOfPartFields(Tail(pools))

\* C9: DelegationRatio.new returns a value only for at least two pools whose
\* parts add up to parts; parts 7 with (A,2),(B,1),(C,4) succeeds, parts 7
\* with (A,2),(B,1) fails and parts 7 with (A,7) fails.
C9_RatioValidity ==
    op = "DelegationRatio.new" =>
        /\ res.some => Len(args[2]) >= 2 /\ SumOfPartFields(args[2]) = args[1]
        /\ (Len(args[2]) < 2 \/ SumOfPartFields(args[2]) # args[1]) => ~res.some
        /\ args = <<7, <<PoolDelegationRatio_new(PoolA, 2), PoolDelegationRatio_new(PoolB, 1),
                         PoolDelegationRatio_new(PoolC, 4)>>>>
              => /\ res.some
                 /\ res.val.parts = 7
                 /\ res.val.pools = <<<<PoolA, 2>>, <<PoolB, 1>>, <<PoolC, 4>>>>
        /\ args = <<7, <<PoolDelegationRatio_new(PoolA, 2), PoolDelegationRatio_new(PoolB, 1)>>>>
              => ~res.some
        /\ args = <<7, <<PoolDelegationRatio_new(PoolA, 7)>>>> => ~res.some

\* The ratio of 7 parts over A, B and C was built.
C9_Witness ==
    /\ op = "DelegationRatio.new"
    /\ args = <<7, <<PoolDelegationRatio_new(PoolA, 2), PoolDelegationRatio_new(PoolB, 1),
                     PoolDelegationRatio_new(PoolC, 4)>>>>
    /\ res.some

(***************************************************************************)
(* Fees.  A Fee holds the three u64 parameters of the linear algorithm; a  *)
(* Transaction is a tagged transaction: its payload tag, the certificate   *)
(* it carries (none under NoExtra), its inputs and its outputs.            *)
(***************************************************************************)
MaxInputs == 2

MaxOutputs == 1

\* Value arguments of Fee::linear_fee.
ConstantInputs == {0, 200000, U64Max}

CoefficientInputs == {0, 50000, U64Max}

CertificateInputs == {0, 100000, U64Max}

\* u64::saturating_add
saturating_add(a, b) == Min(a + b, U64Max)

\* u64::saturating_mul
saturating_mul(a, b) == IF b # 0 /\ a > U64Max \div b THEN U64Max ELSE a * b

\* chain::fee::LinearFee::new
LinearFee_new(constant, coefficient, certificate) ==
    [constant |-> constant, coefficient |-> coefficient, certificate |-> certificate]

\* FeeVariant::Linear
FeeVariant_Linear(algorithm) == [tag |-> "FeeVariant::Linear", algorithm |-> algorithm]

\* Fee::linear_fee
Fee_linear_fee(constant, coefficient, certificate) ==
    FeeVariant_Linear(LinearFee_new(constant, coefficient, certificate))

\* The variants of TaggedTransaction.
PayloadTags ==
    {"NoExtra", "PoolRegistration", "PoolRetirement", "PoolUpdate",
     "StakeDelegation", "OwnerStakeDelegation"}

\* The certificate a transaction carries, as its bytes; NoExtra carries none.
PayloadInputs(payload_tag) ==
    IF payload_tag = "NoExtra" THEN {<<>>} ELSE {BytesOf(11, 2), BytesOf(13, 3)}

\* Input: the value it spends.
Input(value) == [value |-> value]

InputInputs == {Input(1), Input(U64Max)}

\* Output: an address and a value.
Output(address, value) == [value |-> value, address |-> address]

OutputInputs ==
    {Output(Address_single_from_public_key(BytesOf(249, PUBLIC_KEY_SIZE), "Production"), 2),
     Output(Address_account_from_public_key(BytesOf(247, PUBLIC_KEY_SIZE), "Test"), U64Max)}

\* Transaction(TaggedTransaction)
TaggedTransaction(payload_tag, payload, inputs, outputs) ==
    [tag |-> payload_tag, payload |-> payload, inputs |-> inputs, outputs |-> outputs]

Transactions ==
    UNION {{TaggedTransaction(t, c, i, o) :
               c \in PayloadInputs(t),
               i \in SeqsUpTo(InputInputs, MaxInputs),
               o \in SeqsUpTo(OutputInputs, MaxOutputs)} : t \in PayloadTags}

\* Transaction::nb_inputs
nb_inputs(tx) == Len(tx.inputs)

\* Transaction::nb_outputs
nb_outputs(tx) == Len(tx.outputs)

\* Payload::to_certificate_slice: the certificate of the payload, if any.
to_certificate_slice(tx) == IF tx.tag = "NoExtra" THEN None ELSE Some(tx.payload)

\* chain::fee::LinearFee (FeeAlgorithm::calculate): the constant, the
\* coefficient for every input and output, the certificate fee when there
\* is a certificate; u64 arithmetic that stops at u64::MAX.
LinearFee_calculate(algorithm, cert, inputs, outputs) ==
    saturating_add(
        saturating_add(algorithm.constant,
                       saturating_mul(algorithm.coefficient, inputs + outputs)),
        IF cert.some THEN algorithm.certificate ELSE 0)

RECURSIVE SumOfValues(_)

\* The sum of the values of a list of inputs.
SumOfValues(inputs) ==
    IF inputs = <<>> THEN 0 ELSE inputs[1].value + SumOfValues(Tail(inputs))

\* A calculate that charges the certificate fee on every transaction.
Fee_calculate_certified(fee, tx) ==
    LinearFee_calculate(fee.algorithm, Some(tx.payload), nb_inputs(tx), nb_outputs(tx))

\* A calculate that charges the coefficient on the value spent instead of
\* on the number of inputs.
Fee_calculate_by_value(fee, tx) ==
    LinearFee_calculate(fee.algorithm, to_certificate_slice(tx),
                        Min(SumOfValues(tx.inputs), U64Max), nb_outputs(tx))

\* Fee::calculate
Fee_calculate(fee, tx) ==
    LinearFee_calculate(fee.algorithm, to_certificate_slice(tx), nb_inputs(tx), nb_outputs(tx))

FeeLinearFee ==
    \E constant \in ConstantInputs, coefficient \in CoefficientInputs,
       certificate \in CertificateInputs :
        Call("Fee.linear_fee", <<constant, coefficient, certificate>>,
             Fee_linear_fee(constant, coefficient, certificate), FALSE)

\* calculate on the Fee the previous call built.
FeeCalculate ==
    /\ op = "Fee.linear_fee"
    /\ \E tx \in Transactions :
           Call("Fee.calculate", <<res, tx>>, Fee_calculate(res, tx), TRUE)

NextFee == FeeLinearFee \/ FeeCalculate

SpecFee == InitSession /\ [][NextFee]_vars

\* constant + coefficient * (inputs + outputs) + certificate * c, over the
\* integers.
LinearFormula(fee, tx) ==
    fee.algorithm.constant
    + fee.algorithm.coefficient * (Len(tx.inputs) + Len(tx.outputs))
    + fee.algorithm.certificate * (IF tx.tag # "NoExtra" THEN 1 ELSE 0)

SameCounts(t1, t2) ==
    /\ Len(t1.inputs) = Len(t2.inputs)
    /\ Len(t1.outputs) = Len(t2.outputs)
    /\ (t1.tag = "NoExtra") <=> (t2.tag = "NoExtra")

\* C8: two transactions that agree on the number of inputs, the number of
\* outputs and the presence of a certificate get the same fee from the same
\* Fee, whatever their values, addresses and certificates.
C8_CountsOnly ==
    op = "Fee.calculate" =>
        \A t2 \in Transactions :
            SameCounts(args[2], t2) => Fee_calculate(args[1], t2) = res

\* A positive fee was calculated for a transaction with a certificate, and a
\* transaction with other input values, another output and another
\* certificate of another kind has the same counts.
C8_Witness ==
    /\ op = "Fee.calculate"
    /\ 0 < res /\ res < U64Max
    /\ Len(args[2].inputs) = 2
    /\ Len(args[2].outputs) = 1
    /\ \E t2 \in Transactions :
           /\ SameCounts(args[2], t2)
           /\ t2.tag # args[2].tag
           /\ t2.tag # "NoExtra"
           /\ t2.payload # args[2].payload
           /\ t2.inputs[1] # args[2].inputs[1]
           /\ t2.inputs[2] # args[2].inputs[2]
           /\ t2.outputs # args[2].outputs
           /\ Fee_calculate(args[1], t2) = res

(***************************************************************************)
(* Certificates.  Each certificate type wraps the chain library's type and *)
(* has as_bytes and from_bytes; the library's encodings are big-endian,    *)
(* tag-prefixed and length-delimited.                                      *)
(***************************************************************************)
MaxOwners == 2

MaxOperators == 1

RECURSIVE be_bytes(_, _)

\* The n bytes of v, big-endian (u64::to_be_bytes, u128::to_be_bytes).
be_bytes(v, n) == IF n = 0 THEN <<>> ELSE Append(be_bytes(v \div 256, n - 1), v % 256)

\* u128::MAX, on the scale of U64Max.
U128Max == 2 * U64Max + 1

RECURSIVE from_be_bytes(_, _)

\* The number a big-endian byte string holds, in the width that ends at max
\* (u64::from_be_bytes, u128::from_be_bytes).
from_be_bytes(bytes, max) ==
    IF bytes = <<>> THEN 0
    ELSE (256 * from_be_bytes(Take(bytes, Len(bytes) - 1), max) + bytes[Len(bytes)])
         % (max + 1)

\* The n bytes after the first offset bytes.
Slice(bytes, offset, n) == SubSeq(bytes, offset + 1, offset + n)

RECURSIVE Concat(_)

\* The concatenation of a list of byte strings.
Concat(parts) == IF parts = <<>> THEN <<>> ELSE Head(parts) \o Concat(Tail(parts))

\* DelegationType::non_delegated
DelegationType_non_delegated == [tag |-> "NonDelegated"]

\* DelegationType::full
DelegationType_full(pool_id) == [tag |-> "Full", pool |-> pool_id]

\* DelegationType::ratio
DelegationType_ratio(r) == [tag |-> "Ratio", ratio |-> r]

\* GenesisPraosLeader::new
GenesisPraosLeader_new(kes_public_key, vrf_public_key) ==
    [kes_public_key |-> kes_public_key, vrf_public_key |-> vrf_public_key]

\* chain::rewards::TaxType::zero; max_limit 0 is no limit.
TaxType_zero == [fixed |-> 0, numerator |-> 0, denominator |-> 1, max_limit |-> 0]

\* chain::certificate::PoolRegistration
chain_PoolRegistration(serial, owners, operators, permissions, start_validity, rewards, reward_account, keys) ==
    [serial |-> serial, owners |-> owners, operators |-> operators,
     permissions |-> permissions, start_validity |-> start_validity,
     rewards |-> rewards, reward_account |-> reward_account, keys |-> keys]

\* A new that takes the operators for the owners and the owners for the
\* operators
PoolRegistration_new_swapped(serial, owners, operators, management_threshold, start_validity, leader_keys) ==
    chain_PoolRegistration(serial, operators, owners, management_threshold,
                           start_validity, TaxType_zero, None, leader_keys)

\* PoolRegistration::new: rewards and reward_account are fixed.
PoolRegistration_new(serial, owners, operators, management_threshold, start_validity, leader_keys) ==
    chain_PoolRegistration(serial, owners, operators, management_threshold,
                           start_validity, TaxType_zero, None, leader_keys)

\* StakeDelegation::new
StakeDelegation_new(delegation_type, account) ==
    [delegation |-> delegation_type, account_id |-> account]

\* OwnerStakeDelegation::new
OwnerStakeDelegation_new(delegation_type) == [delegation |-> delegation_type]

\* PoolRetirement::new
PoolRetirement_new(pool_id, retirement_time_offset) ==
    [pool_id |-> pool_id, retirement_time |-> retirement_time_offset]

\* PoolUpdate::new
PoolUpdate_new(pool_id, start_validity, previous_keys, updated_keys) ==
    [pool_id |-> pool_id, start_validity |-> start_validity,
     previous_keys |-> previous_keys, updated_keys |-> updated_keys]

\* The encoding of a DelegationType: a tag byte, then the pool id of a full
\* delegation, or the parts, the number of pools and each part and pool id.
serialize_delegation_type(d) ==
    CASE d.tag = "NonDelegated" -> <<0>>
      [] d.tag = "Full" -> <<1>> \o d.pool
      [] d.tag = "Ratio" ->
            <<2, d.ratio.parts, Len(d.ratio.pools)>>
            \o Concat([i \in 1 .. Len(d.ratio.pools) |->
                          <<d.ratio.pools[i][2]>> \o d.ratio.pools[i][1]])

\* The DelegationType a byte string starts with; a ratio is rebuilt by
\* DelegationRatio::new.
deserialize_delegation_type(bytes) ==
    IF Len(bytes) < 1 THEN Err("NotEnoughBytes")
    ELSE CASE bytes[1] = 0 -> Ok(DelegationType_non_delegated)
           [] bytes[1] = 1 ->
                 IF Len(bytes) < 1 + HASH_SIZE THEN Err("NotEnoughBytes")
                 ELSE Ok(DelegationType_full(Slice(bytes, 1, HASH_SIZE)))
           [] bytes[1] = 2 ->
                 IF Len(bytes) < 3 \/ Len(bytes) < 3 + bytes[3] * (1 + HASH_SIZE)
                 THEN Err("NotEnoughBytes")
                 ELSE LET r == chain_DelegationRatio_new(bytes[2],
                                   [i \in 1 .. bytes[3] |->
                                       <<Slice(bytes, 3 + (i - 1) * (1 + HASH_SIZE) + 1, HASH_SIZE),
                                         bytes[3 + (i - 1) * (1 + HASH_SIZE) + 1]>>])
                      IN  IF r.some THEN Ok(DelegationType_ratio(r.val))
                          ELSE Err("StructureInvalid")
           [] OTHER -> Err("UnknownTag")

\* chain::certificate::StakeDelegation::serialize
StakeDelegation_serialize(c) == c.account_id \o serialize_delegation_type(c.delegation)

\* chain::certificate::StakeDelegation::read
StakeDelegation_read(bytes) ==
    IF Len(bytes) < PUBLIC_KEY_SIZE THEN Err("NotEnoughBytes")
    ELSE LET d == deserialize_delegation_type(Drop(bytes, PUBLIC_KEY_SIZE))
         IN  IF d.ok THEN Ok(StakeDelegation_new(d.val, Take(bytes, PUBLIC_KEY_SIZE))) ELSE d

\* chain::certificate::OwnerStakeDelegation::serialize
OwnerStakeDelegation_serialize(c) == serialize_delegation_type(c.delegation)

\* chain::certificate::OwnerStakeDelegation::read
OwnerStakeDelegation_read(bytes) ==
    LET d == deserialize_delegation_type(bytes)
    IN  IF d.ok THEN Ok(OwnerStakeDelegation_new(d.val)) ELSE d

\* chain::certificate::PoolRetirement::serialize
PoolRetirement_serialize(c) == c.pool_id \o be_bytes(c.retirement_time, 8)

\* chain::certificate::PoolRetirement::read
PoolRetirement_read(bytes) ==
    IF Len(bytes) < HASH_SIZE + 8 THEN Err("NotEnoughBytes")
    ELSE Ok(PoolRetirement_new(Take(bytes, HASH_SIZE),
                               from_be_bytes(Slice(bytes, HASH_SIZE, 8), U64Max)))

\* The encoding of a GenesisPraosLeader: the VRF key, then the KES key.
serialize_leader(keys) == keys.vrf_public_key \o keys.kes_public_key

\* chain::certificate::PoolUpdate::serialize
PoolUpdate_serialize(c) ==
    c.pool_id \o be_bytes(c.start_validity, 8) \o c.previous_keys
    \o serialize_leader(c.updated_keys)

\* chain::certificate::PoolUpdate::read
PoolUpdate_read(bytes) ==
    IF Len(bytes) < 2 * HASH_SIZE + 8 + 2 * PUBLIC_KEY_SIZE THEN Err("NotEnoughBytes")
    ELSE Ok(PoolUpdate_new(
                Take(bytes, HASH_SIZE),
                from_be_bytes(Slice(bytes, HASH_SIZE, 8), U64Max),
                Slice(bytes, HASH_SIZE + 8, HASH_SIZE),
                GenesisPraosLeader_new(
                    Slice(bytes, 2 * HASH_SIZE + 8 + PUBLIC_KEY_SIZE, PUBLIC_KEY_SIZE),
                    Slice(bytes, 2 * HASH_SIZE + 8, PUBLIC_KEY_SIZE))))

\* The encoding of a TaxType: four u64.
serialize_tax(t) ==
    be_bytes(t.fixed, 8) \o be_bytes(t.numerator, 8) \o be_bytes(t.denominator, 8)
    \o be_bytes(t.max_limit, 8)

\* chain::certificate::PoolRegistration::serialize
PoolRegistration_serialize(c) ==
    be_bytes(c.serial, 16) \o be_bytes(c.start_validity, 8) \o be_bytes(c.permissions, 8)
    \o <<Len(c.owners), Len(c.operators)>> \o Concat(c.owners) \o Concat(c.operators)
    \o serialize_tax(c.rewards)
    \o (IF c.reward_account.some THEN <<1>> \o c.reward_account.val ELSE <<0>>)
    \o serialize_leader(c.keys)

\* chain::certificate::PoolRegistration::read
PoolRegistration_read(bytes) ==
    IF Len(bytes) < 34 THEN Err("NotEnoughBytes")
    ELSE
    LET owners_nb == bytes[33]
        operators_nb == bytes[34]
        operators_at == 34 + PUBLIC_KEY_SIZE * owners_nb
        rewards_at == operators_at + PUBLIC_KEY_SIZE * operators_nb
        account_at == rewards_at + 32
    IN  IF Len(bytes) < account_at + 1 THEN Err("NotEnoughBytes")
        ELSE
        LET account_tag == bytes[account_at + 1]
            keys_at == account_at + 1 + (IF account_tag = 1 THEN PUBLIC_KEY_SIZE ELSE 0)
            denominator == from_be_bytes(Slice(bytes, rewards_at + 16, 8), U64Max)
        IN  IF account_tag > 1 THEN Err("UnknownTag")
            ELSE IF Len(bytes) < keys_at + 2 * PUBLIC_KEY_SIZE THEN Err("NotEnoughBytes")
            ELSE IF denominator = 0 THEN Err("StructureInvalid")
            ELSE Ok(chain_PoolRegistration(
                     from_be_bytes(Take(bytes, 16), U128Max),
                     [i \in 1 .. owners_nb |->
                         Slice(bytes, 34 + PUBLIC_KEY_SIZE * (i - 1), PUBLIC_KEY_SIZE)],
                     [i \in 1 .. operators_nb |->
                         Slice(bytes, operators_at + PUBLIC_KEY_SIZE * (i - 1), PUBLIC_KEY_SIZE)],
                     from_be_bytes(Slice(bytes, 24, 8), U64Max),
                     from_be_bytes(Slice(bytes, 16, 8), U64Max),
                     [fixed |-> from_be_bytes(Slice(bytes, rewards_at, 8), U64Max),
                      numerator |-> from_be_bytes(Slice(bytes, rewards_at + 8, 8), U64Max),
                      denominator |-> denominator,
                      max_limit |-> from_be_bytes(Slice(bytes, rewards_at + 24, 8), U64Max)],
                     IF account_tag = 1
                     THEN Some(Slice(bytes, account_at + 1, PUBLIC_KEY_SIZE))
                     ELSE None,
                     GenesisPraosLeader_new(
                         Slice(bytes, keys_at + PUBLIC_KEY_SIZE, PUBLIC_KEY_SIZE),
                         Slice(bytes, keys_at, PUBLIC_KEY_SIZE))))

\* StakeDelegation::as_bytes
StakeDelegation_as_bytes(c) == StakeDelegation_serialize(c)

\* StakeDelegation::from_bytes
StakeDelegation_from_bytes(bytes) == map_err_js(StakeDelegation_read(bytes))

\* OwnerStakeDelegation::as_bytes
OwnerStakeDelegation_as_bytes(c) == OwnerStakeDelegation_serialize(c)

\* OwnerStakeDelegation::from_bytes
OwnerStakeDelegation_from_bytes(bytes) == map_err_js(OwnerStakeDelegation_read(bytes))

\* An as_bytes that writes the certificate as a fragment carries it, behind
\* the tag byte of its type.
PoolRetirement_as_bytes_tagged(c) == <<3>> \o PoolRetirement_serialize(c)

\* PoolRetirement::as_bytes
PoolRetirement_as_bytes(c) == PoolRetirement_serialize(c)

\* PoolRetirement::from_bytes
PoolRetirement_from_bytes(bytes) == map_err_js(PoolRetirement_read(bytes))

\* PoolUpdate::as_bytes
PoolUpdate_as_bytes(c) == PoolUpdate_serialize(c)

\* PoolUpdate::from_bytes
PoolUpdate_from_bytes(bytes) == map_err_js(PoolUpdate_read(bytes))

\* PoolRegistration::as_bytes
PoolRegistration_as_bytes(c) == PoolRegistration_serialize(c)

\* PoolRegistration::from_bytes
PoolRegistration_from_bytes(bytes) == map_err_js(PoolRegistration_read(bytes))

\* crypto::Blake2b256: a digest of HASH_SIZE bytes of a byte string.
blake2b256(bytes) ==
    LET s == WeightedSum(bytes, 1, 1, Len(bytes))
    IN  [i \in 1 .. HASH_SIZE |-> (s * i + Len(bytes) + i) % 256]

\* chain::certificate::PoolRegistration::to_id: the hash of the encoding of
\* the identity fields, the serial and the keys.
PoolRegistration_to_id(c) == blake2b256(be_bytes(c.serial, 16) \o serialize_leader(c.keys))

\* An id that hashes the whole encoding of the registration.
PoolRegistration_id_serialized(c) == blake2b256(PoolRegistration_serialize(c))

\* PoolRegistration::id
PoolRegistration_id(c) == PoolRegistration_to_id(c)

\* DelegationType arguments: none, full, and the ratios over two and three
\* pools.
DelegationTypeInputs ==
    {DelegationType_non_delegated, DelegationType_full(PoolA), DelegationType_full(PoolB),
     DelegationType_ratio(DelegationRatio_new(3,
         <<PoolDelegationRatio_new(PoolA, 2), PoolDelegationRatio_new(PoolB, 1)>>).val),
     DelegationType_ratio(DelegationRatio_new(7,
         <<PoolDelegationRatio_new(PoolA, 2), PoolDelegationRatio_new(PoolB, 1),
           PoolDelegationRatio_new(PoolC, 4)>>).val)}

\* TimeOffsetSeconds arguments (u64).
TimeOffsetInputs == {0, U64Max}

\* U128 arguments: below and above u64::MAX.
U128Inputs == {1, U64Max + 1}

\* GenesisPraosLeaderHash arguments.
LeaderHashInputs == {BytesOf(23, HASH_SIZE)}

\* GenesisPraosLeader arguments.
LeaderInputs ==
    {GenesisPraosLeader_new(BytesOf(17, PUBLIC_KEY_SIZE), BytesOf(19, PUBLIC_KEY_SIZE))}

\* PublicKeys arguments: the owners and the operators of a pool.
OwnersInputs ==
    SeqsUpTo({BytesOf(29, PUBLIC_KEY_SIZE), BytesOf(31, PUBLIC_KEY_SIZE)}, MaxOwners)

OperatorsInputs == SeqsUpTo({BytesOf(37, PUBLIC_KEY_SIZE)}, MaxOperators)

\* management_threshold: u8 arguments.
ThresholdInputs == {0, 2}

\* A pool registration only from_bytes can build: a tax and a reward account.
RewardedRegistration ==
    chain_PoolRegistration(1, <<BytesOf(29, PUBLIC_KEY_SIZE)>>, <<>>, 1, 0,
                           [fixed |-> 5, numerator |-> 1, denominator |-> 3, max_limit |-> 0],
                           Some(BytesOf(41, PUBLIC_KEY_SIZE)),
                           GenesisPraosLeader_new(BytesOf(17, PUBLIC_KEY_SIZE),
                                                  BytesOf(19, PUBLIC_KEY_SIZE)))

\* Byte strings around an encoding: empty, cut short, followed by a byte.
Around(bytes) == {<<>>, Take(bytes, Len(bytes) - 1), bytes \o <<7>>}

StakeDelegationNew ==
    \E d \in DelegationTypeInputs, account \in PublicKeyInputs :
        Call("StakeDelegation.new", <<d, account>>, StakeDelegation_new(d, account), FALSE)

OwnerStakeDelegationNew ==
    \E d \in DelegationTypeInputs :
        Call("OwnerStakeDelegation.new", <<d>>, OwnerStakeDelegation_new(d), FALSE)

PoolRetirementNew ==
    \E pool_id \in {PoolA, PoolB}, t \in TimeOffsetInputs :
        Call("PoolRetirement.new", <<pool_id, t>>, PoolRetirement_new(pool_id, t), FALSE)

PoolUpdateNew ==
    \E pool_id \in {PoolA, PoolB}, t \in TimeOffsetInputs,
       previous_keys \in LeaderHashInputs, updated_keys \in LeaderInputs :
        Call("PoolUpdate.new", <<pool_id, t, previous_keys, updated_keys>>,
             PoolUpdate_new(pool_id, t, previous_keys, updated_keys), FALSE)

PoolRegistrationNew ==
    \E serial \in U128Inputs, owners \in OwnersInputs, operators \in OperatorsInputs,
       threshold \in ThresholdInputs, t \in TimeOffsetInputs, keys \in LeaderInputs :
        Call("PoolRegistration.new", <<serial, owners, operators, threshold, t, keys>>,
             PoolRegistration_new(serial, owners, operators, threshold, t, keys), FALSE)

\* as_bytes on the certificate the previous call returned: new's, or
\* from_bytes's.
CertificateAsBytes(new_op, as_op, from_op, as_bytes(_)) ==
    \/ /\ op = new_op
       /\ Call(as_op, <<res>>, as_bytes(res), TRUE)
    \/ /\ op = from_op
       /\ res.ok
       /\ Call(as_op, <<res.val>>, as_bytes(res.val), TRUE)

\* from_bytes on bytes of the caller, or on the bytes the previous as_bytes
\* returned.
CertificateFromBytes(as_op, from_op, from_bytes(_), inputs) ==
    \/ \E bytes \in inputs : Call(from_op, <<bytes>>, from_bytes(bytes), FALSE)
    \/ /\ op = as_op
       /\ Call(from_op, <<res>>, from_bytes(res), TRUE)

StakeDelegationAsBytes ==
    CertificateAsBytes("StakeDelegation.new", "StakeDelegation.as_bytes",
                       "StakeDelegation.from_bytes", StakeDelegation_as_bytes)

StakeDelegationFromBytes ==
    CertificateFromBytes("StakeDelegation.as_bytes", "StakeDelegation.from_bytes",
                         StakeDelegation_from_bytes,
                         Around(BytesOf(43, PUBLIC_KEY_SIZE) \o <<1>> \o PoolA)
                         \cup {BytesOf(43, PUBLIC_KEY_SIZE) \o <<9>>,
                               BytesOf(43, PUBLIC_KEY_SIZE) \o <<2, 7, 1, 3>> \o PoolA})

OwnerStakeDelegationAsBytes ==
    CertificateAsBytes("OwnerStakeDelegation.new", "OwnerStakeDelegation.as_bytes",
                       "OwnerStakeDelegation.from_bytes", OwnerStakeDelegation_as_bytes)

OwnerStakeDelegationFromBytes ==
    CertificateFromBytes("OwnerStakeDelegation.as_bytes", "OwnerStakeDelegation.from_bytes",
                         OwnerStakeDelegation_from_bytes,
                         Around(<<2, 3, 2, 2>> \o PoolA \o <<1>> \o PoolB))

PoolRetirementAsBytes ==
    CertificateAsBytes("PoolRetirement.new", "PoolRetirement.as_bytes",
                       "PoolRetirement.from_bytes", PoolRetirement_as_bytes)

PoolRetirementFromBytes ==
    CertificateFromBytes("PoolRetirement.as_bytes", "PoolRetirement.from_bytes",
                         PoolRetirement_from_bytes, Around(PoolC \o be_bytes(258, 8)))

PoolUpdateAsBytes ==
    CertificateAsBytes("PoolUpdate.new", "PoolUpdate.as_bytes",
                       "PoolUpdate.from_bytes", PoolUpdate_as_bytes)

PoolUpdateFromBytes ==
    CertificateFromBytes("PoolUpdate.as_bytes", "PoolUpdate.from_bytes",
                         PoolUpdate_from_bytes,
                         Around(PoolC \o be_bytes(258, 8) \o BytesOf(23, HASH_SIZE)
                                \o BytesOf(19, PUBLIC_KEY_SIZE) \o BytesOf(17, PUBLIC_KEY_SIZE)))

PoolRegistrationAsBytes ==
    CertificateAsBytes("PoolRegistration.new", "PoolRegistration.as_bytes",
                       "PoolRegistration.from_bytes", PoolRegistration_as_bytes)

PoolRegistrationFromBytes ==
    CertificateFromBytes("PoolRegistration.as_bytes", "PoolRegistration.from_bytes",
                         PoolRegistration_from_bytes,
                         Around(PoolRegistration_serialize(RewardedRegistration))
                         \cup {PoolRegistration_serialize(RewardedRegistration)})

\* id on the registration the previous call returned: new's, or
\* from_bytes's.
PoolRegistrationId ==
    \/ /\ op = "PoolRegistration.new"
       /\ Call("PoolRegistration.id", <<res>>, PoolRegistration_id(res), TRUE)
    \/ /\ op = "PoolRegistration.from_bytes"
       /\ res.ok
       /\ Call("PoolRegistration.id", <<res.val>>, PoolRegistration_id(res.val), TRUE)

NextCert ==
    \/ PoolRegistrationId
    \/ StakeDelegationNew \/ StakeDelegationAsBytes \/ StakeDelegationFromBytes
    \/ OwnerStakeDelegationNew \/ OwnerStakeDelegationAsBytes \/ OwnerStakeDelegationFromBytes
    \/ PoolRetirementNew \/ PoolRetirementAsBytes \/ PoolRetirementFromBytes
    \/ PoolUpdateNew \/ PoolUpdateAsBytes \/ PoolUpdateFromBytes
    \/ PoolRegistrationNew \/ PoolRegistrationAsBytes \/ PoolRegistrationFromBytes

SpecCert == InitSession /\ [][NextCert]_vars

\* The as_bytes of the certificate type an operation belongs to.
CertificateAsBytesOf(o, c) ==
    CASE o = "StakeDelegation.from_bytes" -> StakeDelegation_as_bytes(c)
      [] o = "OwnerStakeDelegation.from_bytes" -> OwnerStakeDelegation_as_bytes(c)
      [] o = "PoolRetirement.from_bytes" -> PoolRetirement_as_bytes(c)
      [] o = "PoolUpdate.from_bytes" -> PoolUpdate_as_bytes(c)
      [] o = "PoolRegistration.from_bytes" -> PoolRegistration_as_bytes(c)

\* The as_bytes operation of the type of a from_bytes operation.
AsBytesOpOf(o) ==
    CASE o = "StakeDelegation.from_bytes" -> "StakeDelegation.as_bytes"
      [] o = "OwnerStakeDelegation.from_bytes" -> "OwnerStakeDelegation.as_bytes"
      [] o = "PoolRetirement.from_bytes" -> "PoolRetirement.as_bytes"
      [] o = "PoolUpdate.from_bytes" -> "PoolUpdate.as_bytes"
      [] o = "PoolRegistration.from_bytes" -> "PoolRegistration.as_bytes"
      [] OTHER -> "none"

\* C10: for each certificate type and every value c of it,
\* from_bytes(c.as_bytes()) succeeds, yields a value with the fields of c,
\* and that value encodes to the same bytes.
C10_CertificateRoundTrip ==
    (AsBytesOpOf(op) # "none" /\ prev.op = AsBytesOpOf(op) /\ args[1] = prev.res) =>
        /\ res.ok
        /\ res.val = prev.args[1]
        /\ CertificateAsBytesOf(op, res.val) = args[1]

\* A pool registration with two owners and an operator came back from its
\* bytes.
C10_Witness ==
    /\ op = "PoolRegistration.from_bytes"
    /\ prev.op = "PoolRegistration.as_bytes"
    /\ args[1] = prev.res
    /\ res.ok
    /\ Len(res.val.owners) = 2
    /\ Len(res.val.operators) = 1
    /\ res.val.serial > U64Max

\* TaxType values: no tax, and the tax of RewardedRegistration.
TaxInputs == {TaxType_zero, RewardedRegistration.rewards}

\* The registrations with the serial and the keys of c and any validity
\* start, rewards, reward account and owners.
SameIdentity(c) ==
    {chain_PoolRegistration(c.serial, o, c.operators, c.permissions, t, r, a, c.keys) :
        o \in {c.owners, <<>>}, t \in TimeOffsetInputs \cup {c.start_validity},
        r \in TaxInputs, a \in {None, RewardedRegistration.reward_account}}

FragmentIdInputs == {BytesOf(11, HASH_SIZE), BytesOf(13, HASH_SIZE)}

\* u8 output indices, the largest one included.
OutputIndexInputs == {0, 1, 255}

InputValueInputs == {1, U64Max}

\* struct tx::UtxoPointer { transaction_id, output_index, value }
tx_UtxoPointer(transaction_id, output_index, value) ==
    [value |-> value, transaction_id |-> transaction_id, output_index |-> output_index]

\* UtxoPointer::new
UtxoPointer_new(fragment_id, output_index, value) ==
    tx_UtxoPointer(fragment_id, output_index, value)

\* enum tx::AccountIdentifier { Single(..), Multi(..) }
AccountIdentifier_Single(id) == [tag |-> "Single", f0 |-> id]

AccountIdentifier_Multi(id) == [tag |-> "Multi", f0 |-> id]

\* Account::single_from_public_key
Account_single_from_public_key(key) == AccountIdentifier_Single(key)

\* A from_address that takes the spending key of a Single address too
Account_from_address_spending(address) ==
    CASE address.kind.tag = "Kind::Account" ->
             Ok(AccountIdentifier_Single(address.kind.account))
      [] address.kind.tag = "Kind::Multisig" ->
             Ok(AccountIdentifier_Multi(address.kind.root))
      [] address.kind.tag = "Kind::Single" ->
             Ok(AccountIdentifier_Single(address.kind.spending))
      [] OTHER -> Err("Address is not account")

\* Account::from_address
Account_from_address(address) ==
    CASE address.kind.tag = "Kind::Account" ->
             Ok(AccountIdentifier_Single(address.kind.account))
      [] address.kind.tag = "Kind::Multisig" ->
             Ok(AccountIdentifier_Multi(address.kind.root))
      [] OTHER -> Err("Address is not account")

\* tx::UnspecifiedAccountIdentifier: the 32 bytes of either identifier.
from_single_account(id) == id

from_multi_account(id) == id

\* Account::to_identifier
Account_to_identifier(self) ==
    CASE self.tag = "Single" -> from_single_account(self.f0)
      [] self.tag = "Multi" -> from_multi_account(self.f0)

\* enum tx::InputEnum { AccountInput(id, value), UtxoInput(utxo_pointer) }
InputEnum_AccountInput(id, value) == [tag |-> "AccountInput", f0 |-> id, f1 |-> value]

InputEnum_UtxoInput(utxo_pointer) == [tag |-> "UtxoInput", f0 |-> utxo_pointer]

\* tx::Input::from_utxo, from_account, to_enum, get_type, value
tx_Input_from_utxo(utxo_pointer) == InputEnum_UtxoInput(utxo_pointer)

tx_Input_from_account(id, v) == InputEnum_AccountInput(id, v)

tx_Input_to_enum(input) == input

tx_Input_get_type(input) ==
    IF tx_Input_to_enum(input).tag = "AccountInput"
    THEN "InputType::Account"
    ELSE "InputType::Utxo"

tx_Input_value(input) ==
    IF tx_Input_to_enum(input).tag = "AccountInput" THEN input.f1 ELSE input.f0.value

\* enum InputKind
InputKind == {"Account", "Utxo"}

\* Input::from_utxo
Input_from_utxo(utxo_pointer) == tx_Input_from_utxo(utxo_pointer)

\* Input::from_account
Input_from_account(account, v) ==
    LET identifier == Account_to_identifier(account)
    IN  tx_Input_from_account(identifier, v)

\* Input::get_type
Input_get_type(self) ==
    CASE tx_Input_get_type(self) = "InputType::Account" -> "Account"
      [] tx_Input_get_type(self) = "InputType::Utxo" -> "Utxo"

\* Input::is_account
Input_is_account(self) ==
    CASE tx_Input_get_type(self) = "InputType::Account" -> TRUE
      [] OTHER -> FALSE

\* Input::is_utxo
Input_is_utxo(self) ==
    CASE tx_Input_get_type(self) = "InputType::Utxo" -> TRUE
      [] OTHER -> FALSE

\* Input::value
Input_value(self) == tx_Input_value(self)

\* get_utxo_pointer without the match on the variant
Input_get_utxo_pointer_unmatched(self) == Ok(tx_Input_to_enum(self).f0)

\* Input::get_utxo_pointer
Input_get_utxo_pointer(self) ==
    LET e == tx_Input_to_enum(self)
    IN  CASE e.tag = "UtxoInput" -> Ok(e.f0)
          [] OTHER -> Err("Input is not from utxo")

\* Input::get_account_identifier
Input_get_account_identifier(self) ==
    LET e == tx_Input_to_enum(self)
    IN  CASE e.tag = "AccountInput" -> Ok(e.f0)
          [] OTHER -> Err("Input is not from account")

\* Addresses an account may be taken from, and one it may not.
AccountAddressInputs ==
    {Address_account_from_public_key(k, "Test") : k \in PublicKeyInputs}
        \cup {Address_multisig_from_merkle_root(BytesOf(9, HASH_SIZE), "Production").val}
        \cup {Address_single_from_public_key(k, "Test") : k \in PublicKeyInputs}

UtxoPointerNew ==
    \E f \in FragmentIdInputs, i \in OutputIndexInputs, v \in InputValueInputs :
        Call("UtxoPointer.new", <<f, i, v>>, UtxoPointer_new(f, i, v), FALSE)

AccountSingleFromPublicKey ==
    \E key \in PublicKeyInputs :
        Call("Account.single_from_public_key", <<key>>,
             Account_single_from_public_key(key), FALSE)

AccountFromAddress ==
    \E a \in AccountAddressInputs :
        Call("Account.from_address", <<a>>, Account_from_address(a), FALSE)

InputFromUtxo ==
    /\ op = "UtxoPointer.new"
    /\ Call("Input.from_utxo", <<res>>, Input_from_utxo(res), TRUE)

InputFromAccount ==
    \E v \in InputValueInputs :
        \/ /\ op = "Account.single_from_public_key"
           /\ Call("Input.from_account", <<res, v>>, Input_from_account(res, v), TRUE)
        \/ /\ op = "Account.from_address"
           /\ res.ok
           /\ Call("Input.from_account", <<res.val, v>>,
                   Input_from_account(res.val, v), TRUE)

InputConstructors == {"Input.from_utxo", "Input.from_account"}

\* A call of the method o of the Input the call before built; the session
\* remembers the call that built it.
InputCall(o, method(_)) ==
    /\ op \in InputConstructors
    /\ Call(o, <<res>>, method(res), TRUE)

InputGetType == InputCall("Input.get_type", Input_get_type)

InputIsAccount == InputCall("Input.is_account", Input_is_account)

InputIsUtxo == InputCall("Input.is_utxo", Input_is_utxo)

InputValue == InputCall("Input.value", Input_value)

InputGetUtxoPointer == InputCall("Input.get_utxo_pointer", Input_get_utxo_pointer)

InputGetAccountIdentifier ==
    InputCall("Input.get_account_identifier", Input_get_account_identifier)

NextInput ==
    \/ UtxoPointerNew
    \/ AccountSingleFromPublicKey
    \/ AccountFromAddress
    \/ InputFromUtxo
    \/ InputFromAccount
    \/ InputGetType
    \/ InputIsAccount
    \/ InputIsUtxo
    \/ InputValue
    \/ InputGetUtxoPointer
    \/ InputGetAccountIdentifier

SpecInput == InitSession /\ [][NextInput]_vars

InputMethods ==
    {"Input.get_type", "Input.is_account", "Input.is_utxo", "Input.value",
     "Input.get_utxo_pointer", "Input.get_account_identifier"}

\* C12: of every Input exactly one of is_utxo() and is_account() is true and
\* it is the one get_type() names; get_utxo_pointer() succeeds exactly when
\* the input is a Utxo input and get_account_identifier() exactly when it is
\* an Account input, the other one returning an error; value() is one
\* amount, the one the input was built with.
C12_InputAccessors ==
    op \in InputMethods =>
        LET i == args[1]
            utxo == Input_get_type(i) = "Utxo"
        IN  /\ Input_get_type(i) \in InputKind
            /\ Input_is_utxo(i) # Input_is_account(i)
            /\ op = "Input.is_utxo" => res = utxo
            /\ op = "Input.is_account" => res = ~utxo
            /\ op = "Input.get_utxo_pointer" =>
                   /\ res.ok = utxo
                   /\ Input_get_account_identifier(i).ok = ~utxo
            /\ op = "Input.get_account_identifier" =>
                   /\ res.ok = ~utxo
                   /\ Input_get_utxo_pointer(i).ok = utxo
            /\ op = "Input.value" =>
                   /\ res \in 0 .. U64Max
                   /\ prev.op = "Input.from_utxo" => res = prev.args[1].value
                   /\ prev.op = "Input.from_account" => res = prev.args[2]

\* get_utxo_pointer was refused on an input of a multisig account, whose
\* account identifier can be had.
C12_Witness ==
    /\ op = "Input.get_utxo_pointer"
    /\ prev.op = "Input.from_account"
    /\ prev.args[1].tag = "Multi"
    /\ ~res.ok
    /\ Input_get_account_identifier(args[1]) = Ok(prev.args[1].f0)

(***************************************************************************)
(* Certificate: one of the five certificate types under one type.          *)
(***************************************************************************)
\* enum CertificateKind
CertificateKind ==
    {"StakeDelegation", "OwnerStakeDelegation", "PoolRegistration", "PoolRetirement",
     "PoolUpdate"}

\* enum certificate::Certificate: the variant and the certificate in it.
certificate_Certificate(variant, cert) == [tag |-> variant, payload |-> cert]

\* Certificate::stake_delegation
Certificate_stake_delegation(stake_delegation) ==
    certificate_Certificate("StakeDelegation", stake_delegation)

\* Certificate::owner_stake_delegation
Certificate_owner_stake_delegation(owner_stake) ==
    certificate_Certificate("OwnerStakeDelegation", owner_stake)

\* Certificate::stake_pool_registration
Certificate_stake_pool_registration(pool_registration) ==
    certificate_Certificate("PoolRegistration", pool_registration)

\* Certificate::stake_pool_retirement
Certificate_stake_pool_retirement(pool_retirement) ==
    certificate_Certificate("PoolRetirement", pool_retirement)

\* Certificate::stake_pool_update
Certificate_stake_pool_update(pool_update) ==
    certificate_Certificate("PoolUpdate", pool_update)

\* Certificate::get_type
Certificate_get_type(self) ==
    CASE self.tag = "StakeDelegation" -> "StakeDelegation"
      [] self.tag = "OwnerStakeDelegation" -> "OwnerStakeDelegation"
      [] self.tag = "PoolRegistration" -> "PoolRegistration"
      [] self.tag = "PoolRetirement" -> "PoolRetirement"
      [] self.tag = "PoolUpdate" -> "PoolUpdate"

\* Certificate::get_stake_delegation
Certificate_get_stake_delegation(self) ==
    CASE self.tag = "StakeDelegation" -> Ok(self.payload)
      [] OTHER -> Err("Certificate is not StakeDelegation")

\* Certificate::get_owner_stake_delegation
Certificate_get_owner_stake_delegation(self) ==
    CASE self.tag = "OwnerStakeDelegation" -> Ok(self.payload)
      [] OTHER -> Err("Certificate is not OwnerStakeDelegation")

\* Certificate::get_pool_registration
Certificate_get_pool_registration(self) ==
    CASE self.tag = "PoolRegistration" -> Ok(self.payload)
      [] OTHER -> Err("Certificate is not PoolRegistration")

\* Certificate::get_pool_retirement
Certificate_get_pool_retirement(self) ==
    CASE self.tag = "PoolRetirement" -> Ok(self.payload)
      [] OTHER -> Err("Certificate is not PoolRetirement")

\* get_pool_update that takes a retirement for an update
Certificate_get_pool_update_or_retirement(self) ==
    CASE self.tag \in {"PoolUpdate", "PoolRetirement"} -> Ok(self.payload)
      [] OTHER -> Err("Certificate is not PoolUpdate")

\* Certificate::get_pool_update
Certificate_get_pool_update(self) ==
    CASE self.tag = "PoolUpdate" -> Ok(self.payload)
      [] OTHER -> Err("Certificate is not PoolUpdate")

\* A Certificate constructor on the certificate the call before built.
CertificateOf(new_op, o, constructor(_)) ==
    /\ op = new_op
    /\ Call(o, <<res>>, constructor(res), TRUE)

CertificateStakeDelegation ==
    CertificateOf("StakeDelegation.new", "Certificate.stake_delegation",
                  Certificate_stake_delegation)

CertificateOwnerStakeDelegation ==
    CertificateOf("OwnerStakeDelegation.new", "Certificate.owner_stake_delegation",
                  Certificate_owner_stake_delegation)

CertificateStakePoolRegistration ==
    CertificateOf("PoolRegistration.new", "Certificate.stake_pool_registration",
                  Certificate_stake_pool_registration)

CertificateStakePoolRetirement ==
    CertificateOf("PoolRetirement.new", "Certificate.stake_pool_retirement",
                  Certificate_stake_pool_retirement)

CertificateStakePoolUpdate ==
    CertificateOf("PoolUpdate.new", "Certificate.stake_pool_update",
                  Certificate_stake_pool_update)

CertificateConstructors ==
    {"Certificate.stake_delegation", "Certificate.owner_stake_delegation",
     "Certificate.stake_pool_registration", "Certificate.stake_pool_retirement",
     "Certificate.stake_pool_update"}

\* A method of the Certificate the call before built; the session remembers
\* the call that built it.
CertificateCall(o, method(_)) ==
    /\ op \in CertificateConstructors
    /\ Call(o, <<res>>, method(res), TRUE)

CertificateGetType == CertificateCall("Certificate.get_type", Certificate_get_type)

CertificateGetStakeDelegation ==
    CertificateCall("Certificate.get_stake_delegation", Certificate_get_stake_delegation)

CertificateGetOwnerStakeDelegation ==
    CertificateCall("Certificate.get_owner_stake_delegation",
                    Certificate_get_owner_stake_delegation)

CertificateGetPoolRegistration ==
    CertificateCall("Certificate.get_pool_registration", Certificate_get_pool_registration)

CertificateGetPoolRetirement ==
    CertificateCall("Certificate.get_pool_retirement", Certificate_get_pool_retirement)

CertificateGetPoolUpdate ==
    CertificateCall("Certificate.get_pool_update", Certificate_get_pool_update)

NextCertificate ==
    \/ StakeDelegationNew
    \/ OwnerStakeDelegationNew
    \/ PoolRegistrationNew
    \/ PoolRetirementNew
    \/ PoolUpdateNew
    \/ CertificateStakeDelegation
    \/ CertificateOwnerStakeDelegation
    \/ CertificateStakePoolRegistration
    \/ CertificateStakePoolRetirement
    \/ CertificateStakePoolUpdate
    \/ CertificateGetType
    \/ CertificateGetStakeDelegation
    \/ CertificateGetOwnerStakeDelegation
    \/ CertificateGetPoolRegistration
    \/ CertificateGetPoolRetirement
    \/ CertificateGetPoolUpdate

SpecCertificate == InitSession /\ [][NextCertificate]_vars

\* The kind a getter is for.
KindOfGetter(o) ==
    CASE o = "Certificate.get_stake_delegation" -> "StakeDelegation"
      [] o = "Certificate.get_owner_stake_delegation" -> "OwnerStakeDelegation"
      [] o = "Certificate.get_pool_registration" -> "PoolRegistration"
      [] o = "Certificate.get_pool_retirement" -> "PoolRetirement"
      [] o = "Certificate.get_pool_update" -> "PoolUpdate"
      [] OTHER -> "none"

\* What the getter for a kind returns of the certificate c.
GetterOfKind(kind, c) ==
    CASE kind = "StakeDelegation" -> Certificate_get_stake_delegation(c)
      [] kind = "OwnerStakeDelegation" -> Certificate_get_owner_stake_delegation(c)
      [] kind = "PoolRegistration" -> Certificate_get_pool_registration(c)
      [] kind = "PoolRetirement" -> Certificate_get_pool_retirement(c)
      [] kind = "PoolUpdate" -> Certificate_get_pool_update(c)

\* C13: of the five getters of a Certificate c exactly the one for
\* c.get_type() succeeds, and it returns the certificate c was constructed
\* from; the other four return an error.
C13_CertificateGetters ==
    KindOfGetter(op) # "none" =>
        LET c == args[1] IN
        /\ res = GetterOfKind(KindOfGetter(op), c)
        /\ res.ok = (KindOfGetter(op) = Certificate_get_type(c))
        /\ res.ok => res.val = prev.args[1]
        /\ \A kind \in CertificateKind :
               GetterOfKind(kind, c).ok = (kind = Certificate_get_type(c))

\* A pool retirement was asked of a pool update certificate and refused,
\* while the update can be had back.
C13_Witness ==
    /\ op = "Certificate.get_pool_retirement"
    /\ prev.op = "Certificate.stake_pool_update"
    /\ ~res.ok
    /\ Certificate_get_pool_update(args[1]) = Ok(prev.args[1])

(***************************************************************************)
(* Fragments: a ledger message is one variant of Fragment.  Six variants   *)
(* carry a transaction and one the legacy UTXO declaration; the content of *)
(* the other three is kept as its bytes.  The encoding is one tag byte and *)
(* the encoding of the content; the id is the hash of the encoding.        *)
(***************************************************************************)
FragmentVariants ==
    {"Initial", "OldUtxoDeclaration", "Transaction", "OwnerStakeDelegation",
     "StakeDelegation", "PoolRegistration", "PoolRetirement", "PoolUpdate",
     "UpdateProposal", "UpdateVote"}

\* The variants whose content the model keeps as bytes.
OpaqueVariants == {"Initial", "UpdateProposal", "UpdateVote"}

\* enum chain::fragment::Fragment: the variant and what it carries.
chain_Fragment(variant, content) == [tag |-> variant, f0 |-> content]

\* The tag byte of a variant.
fragment_tag(variant) ==
    CASE variant = "Initial" -> 0
      [] variant = "OldUtxoDeclaration" -> 1
      [] variant = "Transaction" -> 2
      [] variant = "OwnerStakeDelegation" -> 3
      [] variant = "StakeDelegation" -> 4
      [] variant = "PoolRegistration" -> 5
      [] variant = "PoolRetirement" -> 6
      [] variant = "PoolUpdate" -> 7
      [] variant = "UpdateProposal" -> 8
      [] variant = "UpdateVote" -> 9

\* The authenticated transaction a TaggedTransaction carries.
auth_tx(payload, inputs, outputs) ==
    [payload |-> payload, inputs |-> inputs, outputs |-> outputs]

\* struct chain::legacy::UtxoDeclaration { addrs: Vec<(OldAddress, Value)> }
UtxoDeclaration(addrs) == [addrs |-> addrs]

serialize_inputs(inputs) == Concat([i \in 1 .. Len(inputs) |-> be_bytes(inputs[i].value, 8)])

serialize_outputs(outputs) ==
    Concat([i \in 1 .. Len(outputs) |->
               addr_serialize(outputs[i].address) \o be_bytes(outputs[i].value, 8)])

\* The encoding of an authenticated transaction: the certificate, if the
\* variant has one, delimited by its length; the numbers of inputs and of
\* outputs; the inputs; the outputs.
serialize_auth_tx(variant, t) ==
    (IF variant = "Transaction" THEN <<>> ELSE <<Len(t.payload)>> \o t.payload)
        \o <<Len(t.inputs), Len(t.outputs)>>
        \o serialize_inputs(t.inputs) \o serialize_outputs(t.outputs)

\* The encoding of a declaration: the number of entries, then each address
\* delimited by its length and its value.
serialize_declaration(d) ==
    <<Len(d.addrs)>>
        \o Concat([i \in 1 .. Len(d.addrs) |->
                      <<Len(d.addrs[i][1])>> \o d.addrs[i][1] \o be_bytes(d.addrs[i][2], 8)])

\* chain::fragment::Fragment, property::Serialize
Fragment_serialize(f) ==
    <<fragment_tag(f.tag)>>
        \o (CASE f.tag = "OldUtxoDeclaration" -> serialize_declaration(f.f0)
              [] f.tag \in OpaqueVariants -> <<Len(f.f0)>> \o f.f0
              [] OTHER -> serialize_auth_tx(f.tag, f.f0))

RECURSIVE read_inputs(_, _)

\* n inputs off the front of bytes: the inputs and the bytes left.
read_inputs(bytes, n) ==
    IF n = 0 THEN Ok(<<<<>>, bytes>>)
    ELSE IF Len(bytes) < 8 THEN Err("NotEnoughBytes")
    ELSE LET r == read_inputs(Drop(bytes, 8), n - 1)
         IN  IF r.ok
             THEN Ok(<<<<Input(from_be_bytes(Take(bytes, 8), U64Max))>> \o r.val[1], r.val[2]>>)
             ELSE r

RECURSIVE read_outputs(_, _)

\* n outputs off the front of bytes: the outputs and the bytes left.
read_outputs(bytes, n) ==
    IF n = 0 THEN Ok(<<<<>>, bytes>>)
    ELSE LET a == addr_deserialize(bytes)
         IN  IF ~a.ok THEN a
             ELSE LET rest == Drop(bytes, Len(addr_serialize(a.val)))
                  IN  IF Len(rest) < 8 THEN Err("NotEnoughBytes")
                      ELSE LET r == read_outputs(Drop(rest, 8), n - 1)
                           IN  IF r.ok
                               THEN Ok(<<<<Output(a.val, from_be_bytes(Take(rest, 8), U64Max))>>
                                             \o r.val[1],
                                         r.val[2]>>)
                               ELSE r

\* An authenticated transaction off bytes, all of them.
read_auth_tx(variant, bytes) ==
    LET n == IF variant = "Transaction" THEN 0
             ELSE IF bytes = <<>> THEN -1 ELSE 1 + bytes[1]
    IN  IF n < 0 \/ Len(bytes) < n + 2 THEN Err("NotEnoughBytes")
        ELSE IF variant # "Transaction" /\ n = 1 THEN Err("certificate expected")
        ELSE LET payload == SubSeq(bytes, 2, n)
                 i == read_inputs(Drop(bytes, n + 2), bytes[n + 1])
             IN  IF ~i.ok THEN i
                 ELSE LET o == read_outputs(i.val[2], bytes[n + 2])
                      IN  IF ~o.ok THEN o
                          ELSE IF o.val[2] # <<>> THEN Err("UnconsumedData")
                          ELSE Ok(auth_tx(payload, i.val[1], o.val[1]))

RECURSIVE read_addrs(_, _)

\* n entries of a declaration off the front of bytes, and the bytes left.
read_addrs(bytes, n) ==
    IF n = 0 THEN Ok(<<<<>>, bytes>>)
    ELSE IF bytes = <<>> \/ Len(bytes) < 1 + bytes[1] + 8 THEN Err("NotEnoughBytes")
    ELSE LET size == bytes[1]
             r == read_addrs(Drop(bytes, 1 + size + 8), n - 1)
         IN  IF r.ok
             THEN Ok(<<<<<<SubSeq(bytes, 2, 1 + size),
                          from_be_bytes(Slice(bytes, 1 + size, 8), U64Max)>>>> \o r.val[1],
                       r.val[2]>>)
             ELSE r

\* A declaration off bytes, all of them.
read_declaration(bytes) ==
    IF bytes = <<>> THEN Err("NotEnoughBytes")
    ELSE LET r == read_addrs(Tail(bytes), bytes[1])
         IN  IF ~r.ok THEN r
             ELSE IF r.val[2] # <<>> THEN Err("UnconsumedData")
             ELSE Ok(UtxoDeclaration(r.val[1]))

\* Content kept as bytes, delimited by its length, off bytes, all of them.
read_opaque(bytes) ==
    IF bytes = <<>> \/ Len(bytes) < 1 + bytes[1] THEN Err("NotEnoughBytes")
    ELSE IF Len(bytes) > 1 + bytes[1] THEN Err("UnconsumedData")
    ELSE Ok(Tail(bytes))

\* chain::fragment::Fragment, property::Deserialize
Fragment_deserialize(bytes) ==
    IF bytes = <<>> THEN Err("NotEnoughBytes")
    ELSE IF ~\E v \in FragmentVariants : fragment_tag(v) = bytes[1]
    THEN Err("Unknown fragment tag")
    ELSE LET variant == CHOOSE v \in FragmentVariants : fragment_tag(v) = bytes[1]
             content == CASE variant = "OldUtxoDeclaration" -> read_declaration(Tail(bytes))
                          [] variant \in OpaqueVariants -> read_opaque(Tail(bytes))
                          [] OTHER -> read_auth_tx(variant, Tail(bytes))
         IN  IF content.ok THEN Ok(chain_Fragment(variant, content.val)) ELSE content

\* chain::fragment::Fragment::id: the hash of the encoding.
chain_Fragment_id(f) == blake2b256(Fragment_serialize(f))

\* Fragment::from_transaction
Fragment_from_transaction(tx) ==
    LET auth == auth_tx(tx.payload, tx.inputs, tx.outputs)
    IN  CASE tx.tag = "NoExtra" -> chain_Fragment("Transaction", auth)
          [] tx.tag = "PoolRegistration" -> chain_Fragment("PoolRegistration", auth)
          [] tx.tag = "PoolRetirement" -> chain_Fragment("PoolRetirement", auth)
          [] tx.tag = "PoolUpdate" -> chain_Fragment("PoolUpdate", auth)
          [] tx.tag = "StakeDelegation" -> chain_Fragment("StakeDelegation", auth)
          [] tx.tag = "OwnerStakeDelegation" -> chain_Fragment("OwnerStakeDelegation", auth)

\* A get_transaction that returns every transaction as one without extra
Fragment_get_transaction_no_extra(self) ==
    IF self.tag \in {"Transaction", "OwnerStakeDelegation", "StakeDelegation",
                     "PoolRegistration", "PoolRetirement", "PoolUpdate"}
    THEN Ok(TaggedTransaction("NoExtra", self.f0.payload, self.f0.inputs, self.f0.outputs))
    ELSE Err("Invalid fragment type")

\* Fragment::get_transaction
Fragment_get_transaction(self) ==
    LET auth == self.f0
        T(payload_tag) ==
            Ok(TaggedTransaction(payload_tag, auth.payload, auth.inputs, auth.outputs))
    IN  CASE self.tag = "Transaction" -> T("NoExtra")
          [] self.tag = "OwnerStakeDelegation" -> T("OwnerStakeDelegation")
          [] self.tag = "StakeDelegation" -> T("StakeDelegation")
          [] self.tag = "PoolRegistration" -> T("PoolRegistration")
          [] self.tag = "PoolRetirement" -> T("PoolRetirement")
          [] self.tag = "PoolUpdate" -> T("PoolUpdate")
          [] OTHER -> Err("Invalid fragment type")

\* Fragment::get_old_utxo_declaration
Fragment_get_old_utxo_declaration(self) ==
    CASE self.tag = "OldUtxoDeclaration" -> Ok(self.f0)
      [] OTHER -> Err("fragment is not OldUtxoDeclaration")

\* An as_bytes that frames the encoding with its length
Fragment_as_bytes_framed(self) ==
    Ok(<<Len(Fragment_serialize(self)) % 256>> \o Fragment_serialize(self))

\* Fragment::as_bytes
Fragment_as_bytes(self) == map_err_js(Ok(Fragment_serialize(self)))

\* Fragment::from_bytes
Fragment_from_bytes(bytes) ==
    map_err_js(Fragment_deserialize(copy_to_slice(bytes, Len(bytes))))

\* Fragment::id
Fragment_id(self) == chain_Fragment_id(self)

\* FragmentId::calculate
FragmentId_calculate(bytes) == blake2b256(bytes)

\* The transactions the caller wraps: every variant, with and without
\* inputs and outputs.
FragmentTransactions ==
    {tx \in Transactions : tx.payload \in {<<>>, BytesOf(13, 3)}}

OldAddressInputs == {BytesOf(17, 4), BytesOf(19, 5)}

\* Legacy declarations of none, one and two entries.
DeclarationInputs ==
    {UtxoDeclaration(a) :
        a \in {<<>>, <<<<BytesOf(17, 4), 5>>>>, <<<<BytesOf(17, 4), 5>>, <<BytesOf(19, 5), U64Max>>>>}}

\* Bytes of the caller: encodings of declarations, and byte strings around
\* encodings of fragments.
FragmentByteInputs ==
    {Fragment_serialize(chain_Fragment("OldUtxoDeclaration", d)) : d \in DeclarationInputs}
        \cup Around(Fragment_serialize(chain_Fragment("OldUtxoDeclaration",
                        UtxoDeclaration(<<<<BytesOf(19, 5), 7>>>>))))
        \cup Around(Fragment_serialize(chain_Fragment("Transaction",
                        auth_tx(<<>>, <<Input(2)>>, <<>>))))
        \cup {Fragment_serialize(chain_Fragment(v, BytesOf(23, 2))) : v \in OpaqueVariants}
        \cup {<<0>>, <<9, 0, 0>>, <<10, 0>>}

\* The Fragment the call before returned.
ReturnedFragment(f) ==
    \/ op = "Fragment.from_transaction" /\ res = f
    \/ op = "Fragment.from_bytes" /\ res.ok /\ res.val = f

FragmentFromTransaction ==
    \E tx \in FragmentTransactions :
        Call("Fragment.from_transaction", <<tx>>, Fragment_from_transaction(tx), FALSE)

FragmentFromBytes ==
    \/ \E bytes \in FragmentByteInputs :
           Call("Fragment.from_bytes", <<bytes>>, Fragment_from_bytes(bytes), FALSE)
    \/ /\ op = "Fragment.as_bytes"
       /\ res.ok
       /\ Call("Fragment.from_bytes", <<res.val>>, Fragment_from_bytes(res.val), TRUE)

FragmentAsBytes ==
    \/ /\ op = "Fragment.from_transaction"
       /\ Call("Fragment.as_bytes", <<res>>, Fragment_as_bytes(res), TRUE)
    \/ /\ op = "Fragment.from_bytes"
       /\ res.ok
       /\ Call("Fragment.as_bytes", <<res.val>>, Fragment_as_bytes(res.val), TRUE)

FragmentGetId ==
    \/ /\ op = "Fragment.from_transaction"
       /\ Call("Fragment.id", <<res>>, Fragment_id(res), TRUE)
    \/ /\ op = "Fragment.from_bytes"
       /\ res.ok
       /\ Call("Fragment.id", <<res.val>>, Fragment_id(res.val), TRUE)

FragmentIdCalculate ==
    /\ op = "Fragment.as_bytes"
    /\ res.ok
    /\ Call("FragmentId.calculate", <<res.val>>, FragmentId_calculate(res.val), TRUE)

FragmentGetTransaction ==
    /\ op = "Fragment.from_bytes"
    /\ res.ok
    /\ Call("Fragment.get_transaction", <<res.val>>, Fragment_get_transaction(res.val), TRUE)

FragmentGetOldUtxoDeclaration ==
    /\ op = "Fragment.from_bytes"
    /\ res.ok
    /\ Call("Fragment.get_old_utxo_declaration", <<res.val>>,
            Fragment_get_old_utxo_declaration(res.val), TRUE)

NextFragment ==
    \/ FragmentFromTransaction
    \/ FragmentFromBytes
    \/ FragmentAsBytes
    \/ FragmentGetId
    \/ FragmentIdCalculate
    \/ FragmentGetTransaction
    \/ FragmentGetOldUtxoDeclaration

SpecFragment == InitSession /\ [][NextFragment]_vars

MaxFragments == 2

\* struct chain::block::Block { header, contents }
chain_Block(parent, epoch, slot_id, chain_length, content_size, contents) ==
    [parent |-> parent, epoch |-> epoch, slot_id |-> slot_id,
     chain_length |-> chain_length, content_size |-> content_size, contents |-> contents]

\* The bytes of the header.
BlockHeaderSize == 16 + HASH_SIZE

RECURSIVE read_fragments(_)

\* The fragments a block's content holds, in order.
read_fragments(bytes) ==
    IF bytes = <<>> THEN Ok(<<>>)
    ELSE IF Len(bytes) < 2 THEN Err("NotEnoughBytes")
    ELSE LET size == from_be_bytes(Take(bytes, 2), U64Max)
         IN  IF Len(bytes) < 2 + size THEN Err("NotEnoughBytes")
             ELSE LET f == Fragment_deserialize(Slice(bytes, 2, size))
                      r == read_fragments(Drop(bytes, 2 + size))
                  IN  IF ~f.ok THEN f
                      ELSE IF ~r.ok THEN r
                      ELSE Ok(<<f.val>> \o r.val)

\* chain::block::Block, property::Deserialize
Block_deserialize(bytes) ==
    IF Len(bytes) < BlockHeaderSize THEN Err("NotEnoughBytes")
    ELSE LET content_size == from_be_bytes(Slice(bytes, 0, 4), U64Max)
         IN  IF content_size > Len(bytes) - BlockHeaderSize THEN Err("TruncatedBlock")
             ELSE IF content_size < Len(bytes) - BlockHeaderSize THEN Err("UnconsumedData")
             ELSE LET contents == read_fragments(Drop(bytes, BlockHeaderSize))
                  IN  IF ~contents.ok THEN contents
                      ELSE Ok(chain_Block(Slice(bytes, 16, HASH_SIZE),
                                          from_be_bytes(Slice(bytes, 4, 4), U64Max),
                                          from_be_bytes(Slice(bytes, 8, 4), U64Max),
                                          from_be_bytes(Slice(bytes, 12, 4), U64Max),
                                          content_size, contents.val))

\* chain::block::Block::fragments: an iterator over the fragments the block
\* holds; what it yields, in order.
chain_Block_fragments(block) == block.contents

\* impl From<Vec<Fragment>> for Fragments (impl_collection!)
Fragments_from(vec) == vec

\* Fragments::size (impl_collection!)
Fragments_size(self) == Len(self)

\* Block::from_bytes
Block_from_bytes(bytes) == map_err_js(Block_deserialize(copy_to_slice(bytes, Len(bytes))))

\* A fragments that copies no fragment before the first
Block_fragments_first(self) ==
    LET it == chain_Block_fragments(self)
    IN  Fragments_from([i \in 1 .. Min(1, Len(it)) |-> it[i]])

\* Block::fragments: every fragment the iterator yields is cloned into a
\* vector, which becomes the Fragments collection.
Block_fragments(self) ==
    LET it == chain_Block_fragments(self)
        collected == [i \in 1 .. Len(it) |-> it[i]]
    IN  Fragments_from(collected)

\* Block::content_size
Block_content_size(self) == self.content_size

\* The fragments blocks are made of.
BlockFragmentInputs ==
    {chain_Fragment("Transaction", auth_tx(<<>>, <<Input(1)>>, <<>>)),
     chain_Fragment("OldUtxoDeclaration", UtxoDeclaration(<<<<BytesOf(17, 4), 5>>>>)),
     chain_Fragment("Initial", BytesOf(23, 2))}

\* The bytes of a block with the given epoch and fragments.
BlockBytes(epoch, fragments) ==
    LET content == Concat([i \in 1 .. Len(fragments) |->
                              be_bytes(Len(Fragment_serialize(fragments[i])), 2)
                                  \o Fragment_serialize(fragments[i])])
    IN  be_bytes(Len(content), 4) \o be_bytes(epoch, 4) \o be_bytes(3, 4) \o be_bytes(9, 4)
            \o BytesOf(29, HASH_SIZE) \o content

\* Bytes of the caller: blocks of up to MaxFragments fragments, one cut
\* short and one followed by a byte.
BlockByteInputs ==
    {BlockBytes(e, f) : e \in {0, 258}, f \in SeqsUpTo(BlockFragmentInputs, MaxFragments)}
        \cup Around(BlockBytes(1, <<chain_Fragment("Initial", BytesOf(23, 2))>>))

\* The Block the call before returned, or was made on.
BlockInHand(b) ==
    \/ op = "Block.from_bytes" /\ res.ok /\ res.val = b
    \/ op \in {"Block.fragments", "Block.content_size"} /\ args[1] = b

BlockFromBytes ==
    \E bytes \in BlockByteInputs :
        Call("Block.from_bytes", <<bytes>>, Block_from_bytes(bytes), FALSE)

BlockFragments ==
    \E b \in {Block_from_bytes(bytes).val :
                 bytes \in {x \in BlockByteInputs : Block_from_bytes(x).ok}} :
        /\ BlockInHand(b)
        /\ Call("Block.fragments", <<b>>, Block_fragments(b), TRUE)

BlockContentSize ==
    \E b \in {Block_from_bytes(bytes).val :
                 bytes \in {x \in BlockByteInputs : Block_from_bytes(x).ok}} :
        /\ BlockInHand(b)
        /\ Call("Block.content_size", <<b>>, Block_content_size(b), TRUE)

FragmentsSize ==
    /\ op = "Block.fragments"
    /\ Call("Fragments.size", <<res>>, Fragments_size(res), TRUE)

NextBlock ==
    \/ BlockFromBytes
    \/ BlockFragments
    \/ BlockContentSize
    \/ FragmentsSize

SpecBlock == InitSession /\ [][NextBlock]_vars

\* The fragments of the block that exist as Fragment values of the caller
\* when Block.fragments() has returned and nothing has been asked of the
\* collection.
CopiedByFragments == IF op = "Block.fragments" THEN Len(res) ELSE 0

\* Block.fragments() returns the fragments of the block, all of them, in the
\* order of the block; a call after another call on the same block returns
\* the same sequence, and the block has the content size it had.
C15_Restartable ==
    /\ op = "Block.fragments" =>
           /\ Len(res) = Len(args[1].contents)
           /\ \A i \in 1 .. Len(res) : res[i] = args[1].contents[i]
           /\ prev.op = "Block.fragments" /\ prev.args = args => res = prev.res
    /\ (op = "Fragments.size" /\ prev.op = "Block.fragments") =>
           res = Len(prev.args[1].contents)
    /\ (op = "Block.content_size" /\ prev.op \in {"Block.fragments", "Block.content_size"}
            /\ prev.args = args) =>
           Block_content_size(args[1]) = res

\* C15 as stated: fragment iteration over a Block is lazy, finite and
\* restartable; no fragment is materialized until it is requested, so none
\* when fragments() returns.
C15_LazyRestartable ==
    /\ CopiedByFragments = 0
    /\ C15_Restartable

\* C15: Block.fragments() copies every fragment of the block when it is
\* called; it is finite and restartable: any number of calls on the same
\* block return the same sequence of fragments in the same order and leave
\* the block unchanged.
C15_EagerRestartable ==
    /\ op = "Block.fragments" => CopiedByFragments = Len(args[1].contents)
    /\ C15_Restartable

\* A second fragments() on a block of two fragments returned the two
\* fragments the first call returned.
C15_Witness ==
    /\ op = "Block.fragments"
    /\ prev.op = "Block.fragments"
    /\ prev.args = args
    /\ CopiedByFragments = 2
    /\ res = prev.res
    /\ res[1] # res[2]

(***************************************************************************)
(* Indexed collections: PublicKeys, which the caller fills, and the        *)
(* entries of a legacy UTXO declaration.  A method that takes its instance *)
(* by &mut self is modelled by the instance after the call; a Rust panic   *)
(* (a trap of the WebAssembly module, not a value returned to the caller)  *)
(* is an outcome of its own.                                               *)
(***************************************************************************)
MaxKeys == 2

\* The call returned v.
NoPanic(v) == [val |-> v, panic |-> FALSE]

\* The call panicked.
Panic(msg) == [panic |-> TRUE, msg |-> msg]

\* Vec<T> index: self.0[index], which panics out of range.
vec_index(vec, index) ==
    IF index < Len(vec) THEN NoPanic(vec[index + 1])
    ELSE Panic("index out of bounds")

\* PublicKeys::new
PublicKeys_new == <<>>

\* PublicKeys::size
PublicKeys_size(self) == Len(self)

\* A get that counts the index from the end of the collection
PublicKeys_get_from_end(self, index) ==
    IF index < Len(self) THEN NoPanic(self[Len(self) - index])
    ELSE Panic("index out of bounds")

\* PublicKeys::get
PublicKeys_get(self, index) == vec_index(self, index)

\* An add that puts the key before the keys of the collection
PublicKeys_add_front(self, key) == <<key>> \o self

\* PublicKeys::add (&mut self, returns nothing): self after the push.
PublicKeys_add(self, key) == Append(self, key)

\* The text of a legacy address (Display for OldAddress); a base-32
\* rendering stands for the library's base-58.
OldAddress_display(addr) ==
    LET d == to_base32(addr) IN [i \in 1 .. Len(d) |-> BECH32_CHARSET[d[i] + 1]]

\* OldUtxoDeclaration::size
OldUtxoDeclaration_size(self) == Len(self.addrs)

\* OldUtxoDeclaration::get_address
OldUtxoDeclaration_get_address(self, index) ==
    LET entry == vec_index(self.addrs, index)
    IN  IF entry.panic THEN entry ELSE NoPanic(OldAddress_display(entry.val[1]))

\* OldUtxoDeclaration::get_value
OldUtxoDeclaration_get_value(self, index) ==
    LET entry == vec_index(self.addrs, index)
    IN  IF entry.panic THEN entry ELSE NoPanic(entry.val[2])

\* usize indices: in range, and the first out of range.
IndexInputs == 0 .. MaxKeys

PublicKeysOps == {"PublicKeys.new", "PublicKeys.size", "PublicKeys.get", "PublicKeys.add"}

\* The call before was made on a PublicKeys collection, or made one, and
\* did not panic: res.self is the collection after the call.
PublicKeysInHand ==
    /\ op \in PublicKeysOps
    /\ op = "PublicKeys.get" => ~res.ret.panic

\* One call on a PublicKeys collection: the collection after the call and
\* what the call returned.
Outcome(after, returned) == [self |-> after, ret |-> returned]

PublicKeysNew ==
    Call("PublicKeys.new", <<>>, Outcome(PublicKeys_new, "()"), FALSE)

PublicKeysAdd ==
    \E key \in PublicKeyInputs :
        /\ PublicKeysInHand
        /\ Len(res.self) < MaxKeys
        /\ Call("PublicKeys.add", <<res.self, key>>,
                Outcome(PublicKeys_add(res.self, key), "()"), TRUE)

PublicKeysSize ==
    /\ PublicKeysInHand
    /\ Call("PublicKeys.size", <<res.self>>, Outcome(res.self, PublicKeys_size(res.self)), TRUE)

PublicKeysGet ==
    \E index \in IndexInputs :
        /\ PublicKeysInHand
        /\ Call("PublicKeys.get", <<res.self, index>>,
                Outcome(res.self, PublicKeys_get(res.self, index)), TRUE)

\* A legacy declaration read from the bytes of a fragment.
DeclarationFragmentFromBytes ==
    \E d \in DeclarationInputs :
        LET bytes == Fragment_serialize(chain_Fragment("OldUtxoDeclaration", d))
        IN  Call("Fragment.from_bytes", <<bytes>>, Fragment_from_bytes(bytes), FALSE)

\* The call before returned the declaration d, or was made on it and did
\* not panic.
DeclarationInHand(d) ==
    \/ op = "Fragment.get_old_utxo_declaration" /\ res.ok /\ res.val = d
    \/ /\ op \in {"OldUtxoDeclaration.get_address", "OldUtxoDeclaration.get_value"}
       /\ ~res.panic
       /\ args[1] = d
    \/ op = "OldUtxoDeclaration.size" /\ args[1] = d

OldUtxoDeclarationSize ==
    \E d \in DeclarationInputs :
        /\ DeclarationInHand(d)
        /\ Call("OldUtxoDeclaration.size", <<d>>, OldUtxoDeclaration_size(d), TRUE)

OldUtxoDeclarationGetAddress ==
    \E d \in DeclarationInputs, index \in IndexInputs :
        /\ DeclarationInHand(d)
        /\ Call("OldUtxoDeclaration.get_address", <<d, index>>,
                OldUtxoDeclaration_get_address(d, index), TRUE)

OldUtxoDeclarationGetValue ==
    \E d \in DeclarationInputs, index \in IndexInputs :
        /\ DeclarationInHand(d)
        /\ Call("OldUtxoDeclaration.get_value", <<d, index>>,
                OldUtxoDeclaration_get_value(d, index), TRUE)

NextCollections ==
    \/ PublicKeysNew
    \/ PublicKeysAdd
    \/ PublicKeysSize
    \/ PublicKeysGet
    \/ DeclarationFragmentFromBytes
    \/ FragmentGetOldUtxoDeclaration
    \/ OldUtxoDeclarationSize
    \/ OldUtxoDeclarationGetAddress
    \/ OldUtxoDeclarationGetValue

SpecCollections == InitSession /\ [][NextCollections]_vars

IndexedGets ==
    {"PublicKeys.get", "OldUtxoDeclaration.get_address", "OldUtxoDeclaration.get_value"}

\* What an indexed get returned, and the size of what it was called on.
GetOutcome == IF op = "PublicKeys.get" THEN res.ret ELSE res

GetSize == IF op = "PublicKeys.get" THEN Len(args[1]) ELSE Len(args[1].addrs)

\* C17: PublicKeys.get(index), OldUtxoDeclaration.get_address(index) and
\* OldUtxoDeclaration.get_value(index) with index >= size report an error
\* to the caller and do not panic.
C17_TypedFailure ==
    (op \in IndexedGets /\ args[2] >= GetSize) =>
        /\ ~GetOutcome.panic
        /\ ~GetOutcome.val.ok

(***************************************************************************)
(* PrivateKey: an Ed25519 signing key, normal or extended, its encodings,  *)
(* and signatures.  The signature scheme is the library's: a public key is *)
(* a digest of the secret, a signature is a nonce and a digest that binds  *)
(* the public key, the nonce and the message, and verification recomputes  *)
(* that digest.                                                            *)
(***************************************************************************)
\* The signing algorithms of a PrivateKey.
SecretKeyAlgorithms == {"Ed25519", "Ed25519Extended"}

\* The bytes of a secret key: 64 for Ed25519, 96 for Ed25519Extended.
secret_key_size(alg) == IF alg = "Ed25519" THEN 2 * PUBLIC_KEY_SIZE ELSE 3 * PUBLIC_KEY_SIZE

\* The bech32 prefix of a secret key: "ed25519_sk", "ed25519e_sk".
secret_key_hrp(alg) ==
    IF alg = "Ed25519"
    THEN <<101, 100, 50, 53, 53, 49, 57, 95, 115, 107>>
    ELSE <<101, 100, 50, 53, 53, 49, 57, 101, 95, 115, 107>>

\* crypto::SecretKey::from_binary
SecretKey_from_binary(alg, bytes) ==
    IF Len(bytes) = secret_key_size(alg) THEN Ok(bytes) ELSE Err("SizeInvalid")

\* crypto::bech32::Bech32::to_bech32_str of a secret key
SecretKey_to_bech32_str(alg, secret) == bech32_encode(secret_key_hrp(alg), to_base32(secret))

\* crypto::bech32::Bech32::try_from_bech32_str of a secret key: the prefix
\* is the algorithm's, the data are the bytes of a key.
SecretKey_try_from_bech32_str(alg, str) ==
    LET r == bech32_decode(str)
    IN  IF ~r.ok THEN r
        ELSE IF r.val.hrp # secret_key_hrp(alg) THEN Err("HrpInvalid")
        ELSE LET bytes == from_base32(r.val.data)
             IN  IF ~bytes.ok THEN bytes ELSE SecretKey_from_binary(alg, bytes.val)

\* enum key::EitherEd25519SecretKey { Extended(..), Normal(..) }
EitherEd25519SecretKey_Extended(secret) == [tag |-> "Extended", f0 |-> secret]

EitherEd25519SecretKey_Normal(secret) == [tag |-> "Normal", f0 |-> secret]

\* The public key of a secret key: a byte of it for each pair of bytes of
\* the two halves of the scalar part of the secret, so that two secrets the
\* session holds never share a public key.
secret_to_public(secret) ==
    [i \in 1 .. PUBLIC_KEY_SIZE |->
        (secret[i] + 3 * secret[i + PUBLIC_KEY_SIZE] + Len(secret) + i) % 256]

\* key::EitherEd25519SecretKey::to_public
EitherEd25519SecretKey_to_public(k) == secret_to_public(k.f0)

\* The bytes of a signature.
SIGNATURE_SIZE == 2 * HASH_SIZE

\* The second half of a signature: bytewise, the public key, the nonce and
\* the digest of the nonce and the message.
signature_response(public_key, nonce, message) ==
    LET h == blake2b256(nonce \o message)
    IN  [i \in 1 .. HASH_SIZE |-> (public_key[i] + nonce[i] + h[i]) % 256]

\* key::EitherEd25519SecretKey::sign: the nonce, which the secret and the
\* message determine, then the response to it.
EitherEd25519SecretKey_sign(k, message) ==
    LET nonce == blake2b256(k.f0 \o message)
    IN  nonce \o signature_response(secret_to_public(k.f0), nonce, message)

\* crypto::Signature::verify_slice
Signature_verify_slice(signature, public_key, data) ==
    IF /\ Len(signature) = SIGNATURE_SIZE
       /\ Len(public_key) = PUBLIC_KEY_SIZE
       /\ Drop(signature, HASH_SIZE)
              = signature_response(public_key, Take(signature, HASH_SIZE), data)
    THEN "Verification::Success"
    ELSE "Verification::Failed"

\* A from_bech32 that reads normal keys only
PrivateKey_from_bech32_normal(bech32_str) ==
    LET normal == SecretKey_try_from_bech32_str("Ed25519", bech32_str)
    IN  IF normal.ok THEN Ok(EitherEd25519SecretKey_Normal(normal.val))
        ELSE Err("Invalid secret key")

\* PrivateKey::from_bech32
PrivateKey_from_bech32(bech32_str) ==
    LET extended == SecretKey_try_from_bech32_str("Ed25519Extended", bech32_str)
        normal == SecretKey_try_from_bech32_str("Ed25519", bech32_str)
    IN  IF extended.ok THEN Ok(EitherEd25519SecretKey_Extended(extended.val))
        ELSE IF normal.ok THEN Ok(EitherEd25519SecretKey_Normal(normal.val))
        ELSE Err("Invalid secret key")

\* PrivateKey::to_public
PrivateKey_to_public(self) == EitherEd25519SecretKey_to_public(self)

\* PrivateKey::generate_ed25519; os_rng is what OsRng::new() and the
\* generator give: a fresh secret, or the failure to open the generator.
PrivateKey_generate_ed25519(os_rng) ==
    IF os_rng.ok THEN Ok(EitherEd25519SecretKey_Normal(os_rng.val)) ELSE Err(os_rng.err)

\* PrivateKey::generate_ed25519extended
PrivateKey_generate_ed25519extended(os_rng) ==
    IF os_rng.ok THEN Ok(EitherEd25519SecretKey_Extended(os_rng.val)) ELSE Err(os_rng.err)

\* PrivateKey::to_bech32
PrivateKey_to_bech32(self) ==
    CASE self.tag = "Normal" -> SecretKey_to_bech32_str("Ed25519", self.f0)
      [] self.tag = "Extended" -> SecretKey_to_bech32_str("Ed25519Extended", self.f0)

\* PrivateKey::as_bytes
PrivateKey_as_bytes(self) ==
    CASE self.tag = "Normal" -> self.f0
      [] self.tag = "Extended" -> self.f0

\* PrivateKey::from_extended_bytes
PrivateKey_from_extended_bytes(bytes) ==
    LET secret == SecretKey_from_binary("Ed25519Extended", bytes)
    IN  IF secret.ok THEN Ok(EitherEd25519SecretKey_Extended(secret.val))
        ELSE Err("Invalid extended secret key")

\* PrivateKey::from_normal_bytes
PrivateKey_from_normal_bytes(bytes) ==
    LET secret == SecretKey_from_binary("Ed25519", bytes)
    IN  IF secret.ok THEN Ok(EitherEd25519SecretKey_Normal(secret.val))
        ELSE Err("Invalid normal secret key")

\* PrivateKey::sign
PrivateKey_sign(self, message) == EitherEd25519SecretKey_sign(self, message)

\* A verify that accepts every signature of the right size
PublicKey_verify_size(self, data, signature) == Len(signature) = SIGNATURE_SIZE

\* PublicKey::verify
PublicKey_verify(self, data, signature) ==
    Signature_verify_slice(signature, self, data) = "Verification::Success"

\* Secrets of the two sizes, as the generator gives them and as the caller
\* holds them.
SecretInputs(alg) == {BytesOf(37 + 4 * j, secret_key_size(alg)) : j \in 1 .. KeyCount}

\* The private keys of the session.
PrivateKeys ==
    {EitherEd25519SecretKey_Normal(x) : x \in SecretInputs("Ed25519")}
        \cup {EitherEd25519SecretKey_Extended(x) : x \in SecretInputs("Ed25519Extended")}

\* message: &[u8] arguments.
MessageInputs == {<<>>, <<1, 2, 3>>, BytesOf(5, 40)}

\* A byte string with the byte at position i raised by one.
Altered(bytes, i) == [bytes EXCEPT ![i] = (@ + 1) % 256]

\* Byte strings that differ from bytes: in the first byte, in the last one,
\* in the one in the middle, and by a byte more.
Alterations(bytes) ==
    {Altered(bytes, i) : i \in {1, (Len(bytes) + 1) \div 2, Len(bytes)} \cap 1 .. Len(bytes)}
        \cup {bytes \o <<0>>}

\* A bech32 string with the prefix of a normal key and an address as data.
NotAKey ==
    Address_to_string(Address_single_from_public_key(BytesOf(249, PUBLIC_KEY_SIZE), "Test"),
                      secret_key_hrp("Ed25519"))

\* The call before returned the private key k.
PrivateKeyInHand(k) ==
    /\ op \in {"PrivateKey.generate_ed25519", "PrivateKey.generate_ed25519extended",
               "PrivateKey.from_bech32", "PrivateKey.from_extended_bytes",
               "PrivateKey.from_normal_bytes"}
    /\ res.ok
    /\ res.val = k

PrivateKeyGenerateEd25519 ==
    \E os_rng \in {Ok(x) : x \in SecretInputs("Ed25519")} \cup {Err("OsRng")} :
        Call("PrivateKey.generate_ed25519", <<>>, PrivateKey_generate_ed25519(os_rng), FALSE)

PrivateKeyGenerateEd25519Extended ==
    \E os_rng \in {Ok(x) : x \in SecretInputs("Ed25519Extended")} \cup {Err("OsRng")} :
        Call("PrivateKey.generate_ed25519extended", <<>>,
             PrivateKey_generate_ed25519extended(os_rng), FALSE)

PrivateKeyToBech32 ==
    \E k \in PrivateKeys :
        /\ PrivateKeyInHand(k)
        /\ Call("PrivateKey.to_bech32", <<k>>, PrivateKey_to_bech32(k), TRUE)

PrivateKeyFromBech32 ==
    \/ /\ op = "PrivateKey.to_bech32"
       /\ Call("PrivateKey.from_bech32", <<res>>, PrivateKey_from_bech32(res), TRUE)
    \/ /\ op = "PrivateKey.to_bech32"
       /\ \E str \in Alterations(res) \cup {NotAKey} :
              Call("PrivateKey.from_bech32", <<str>>, PrivateKey_from_bech32(str), FALSE)

PrivateKeyAsBytes ==
    \E k \in PrivateKeys :
        /\ PrivateKeyInHand(k)
        /\ Call("PrivateKey.as_bytes", <<k>>, PrivateKey_as_bytes(k), TRUE)

PrivateKeyFromNormalBytes ==
    \/ /\ op = "PrivateKey.as_bytes"
       /\ Call("PrivateKey.from_normal_bytes", <<res>>, PrivateKey_from_normal_bytes(res), TRUE)
    \/ \E bytes \in SecretInputs("Ed25519") \cup {<<>>} :
           Call("PrivateKey.from_normal_bytes", <<bytes>>,
                PrivateKey_from_normal_bytes(bytes), FALSE)

PrivateKeyFromExtendedBytes ==
    \/ /\ op = "PrivateKey.as_bytes"
       /\ Call("PrivateKey.from_extended_bytes", <<res>>,
               PrivateKey_from_extended_bytes(res), TRUE)
    \/ \E bytes \in SecretInputs("Ed25519Extended") \cup {<<>>} :
           Call("PrivateKey.from_extended_bytes", <<bytes>>,
                PrivateKey_from_extended_bytes(bytes), FALSE)

PrivateKeyToPublic ==
    \E k \in PrivateKeys :
        /\ PrivateKeyInHand(k)
        /\ Call("PrivateKey.to_public", <<k>>, PrivateKey_to_public(k), TRUE)

PrivateKeySign ==
    \E k \in PrivateKeys, message \in MessageInputs :
        /\ PrivateKeyInHand(k)
        /\ Call("PrivateKey.sign", <<k, message>>, PrivateKey_sign(k, message), TRUE)

\* verify after sign, with the public key of any key of the session, the
\* message signed, another message or an altered one, and the signature
\* made or an altered one.
PublicKeyVerify ==
    /\ op = "PrivateKey.sign"
    /\ \E k \in PrivateKeys,
          data \in MessageInputs \cup Alterations(args[2]),
          signature \in {res} \cup Alterations(res) :
           Call("PublicKey.verify", <<PrivateKey_to_public(k), data, signature>>,
                PublicKey_verify(PrivateKey_to_public(k), data, signature), TRUE)

NextPrivateKey ==
    \/ PrivateKeyGenerateEd25519
    \/ PrivateKeyGenerateEd25519Extended
    \/ PrivateKeyToBech32
    \/ PrivateKeyFromBech32
    \/ PrivateKeyAsBytes
    \/ PrivateKeyFromNormalBytes
    \/ PrivateKeyFromExtendedBytes
    \/ PrivateKeyToPublic
    \/ PrivateKeySign
    \/ PublicKeyVerify

SpecPrivateKey == InitSession /\ [][NextPrivateKey]_vars

\* C18: sk.to_public().verify(m, sk.sign(m)) is true, for normal and
\* extended keys; verify is false when the message is not m, when the
\* signature is not the one sign returned, or when the public key is not
\* the one of sk.
C18_SignVerify ==
    (op = "PublicKey.verify" /\ prev.op = "PrivateKey.sign") =>
        res = (/\ args[1] = PrivateKey_to_public(prev.args[1])
               /\ args[2] = prev.args[2]
               /\ args[3] = prev.res)

\* The signature an extended key made of a message of 40 bytes verified
\* under the public key of the key.
C18_Witness ==
    /\ op = "PublicKey.verify"
    /\ prev.op = "PrivateKey.sign"
    /\ prev.args[1].tag = "Extended"
    /\ Len(prev.args[2]) = 40
    /\ args = <<PrivateKey_to_public(prev.args[1]), prev.args[2], prev.res>>
    /\ res = TRUE

\* C20: PrivateKey.from_bech32(k.to_bech32()) is a key of the variant of k
\* with the bytes of k; from_normal_bytes(k.as_bytes()) is k for a Normal k
\* and from_extended_bytes(k.as_bytes()) is k for an Extended k.
C20_PrivateKeyRoundTrip ==
    /\ (op = "PrivateKey.from_bech32" /\ prev.op = "PrivateKey.to_bech32"
            /\ args[1] = prev.res) =>
           /\ res.ok
           /\ res.val.tag = prev.args[1].tag
           /\ PrivateKey_as_bytes(res.val) = PrivateKey_as_bytes(prev.args[1])
    /\ (op = "PrivateKey.from_normal_bytes" /\ prev.op = "PrivateKey.as_bytes"
            /\ prev.args[1].tag = "Normal") =>
           res = Ok(prev.args[1])
    /\ (op = "PrivateKey.from_extended_bytes" /\ prev.op = "PrivateKey.as_bytes"
            /\ prev.args[1].tag = "Extended") =>
           res = Ok(prev.args[1])

\* An extended key read from its bytes was written as bech32 and read back
\* as an extended key with the same bytes.
C20_Witness ==
    /\ op = "PrivateKey.from_bech32"
    /\ prev.op = "PrivateKey.to_bech32"
    /\ args[1] = prev.res
    /\ prev.args[1].tag = "Extended"
    /\ res.ok
    /\ res.val.tag = "Extended"
    /\ PrivateKey_as_bytes(res.val) = PrivateKey_as_bytes(prev.args[1])

\* ---------------------------------------------------------------------
\* Witnesses
\* ---------------------------------------------------------------------

\* account::SpendingCounter as From<u32>: struct SpendingCounter(u32)
account_SpendingCounter_from(counter) == counter

\* account::SpendingCounter::zero
account_SpendingCounter_zero == account_SpendingCounter_from(0)

\* SpendingCounter::zero
SpendingCounter_zero == account_SpendingCounter_zero

\* SpendingCounter::from_u32
SpendingCounter_from_u32(counter) == account_SpendingCounter_from(counter)

\* The message of a utxo witness: the hash of the genesis block, then the
\* hash of the data to sign.
WitnessUtxoData(block0, sign_data_hash) == block0 \o sign_data_hash

\* The message of an account witness: as for a utxo, then the four bytes of
\* the spending counter.
WitnessAccountData(block0, sign_data_hash, spending_counter) ==
    block0 \o sign_data_hash \o be_bytes(spending_counter, 4)

\* tx::Witness::new_utxo: enum tx::Witness { Utxo(signature), .. }
tx_Witness_new_utxo(block0, sign_data_hash, secret_key) ==
    [tag |-> "Utxo",
     f0 |-> EitherEd25519SecretKey_sign(secret_key, WitnessUtxoData(block0, sign_data_hash))]

\* tx::Witness::new_account: enum tx::Witness { Account(signature), .. }
tx_Witness_new_account(block0, sign_data_hash, spending_counter, secret_key) ==
    [tag |-> "Account",
     f0 |-> EitherEd25519SecretKey_sign(secret_key,
                WitnessAccountData(block0, sign_data_hash, spending_counter))]

\* tx::Witness::verify_utxo: the message is recomputed and the signature
\* verified under the public key of the output spent.
tx_Witness_verify_utxo(witness, public_key, block0, sign_data_hash) ==
    /\ witness.tag = "Utxo"
    /\ Signature_verify_slice(witness.f0, public_key, WitnessUtxoData(block0, sign_data_hash))
           = "Verification::Success"

\* tx::Witness::verify_account: the message is recomputed with the counter
\* the ledger holds for the account.
tx_Witness_verify_account(witness, public_key, block0, sign_data_hash, spending_counter) ==
    /\ witness.tag = "Account"
    /\ Signature_verify_slice(witness.f0, public_key,
                              WitnessAccountData(block0, sign_data_hash, spending_counter))
           = "Verification::Success"

\* Witness::for_utxo
Witness_for_utxo(genesis_hash, transaction_id, secret_key) ==
    tx_Witness_new_utxo(genesis_hash, transaction_id, secret_key)

\* A for_account that signs the message of a utxo witness
Witness_for_account_uncounted(genesis_hash, transaction_id, secret_key, account_spending_counter) ==
    [tag |-> "Account",
     f0 |-> EitherEd25519SecretKey_sign(secret_key, WitnessUtxoData(genesis_hash, transaction_id))]

\* Witness::for_account
Witness_for_account(genesis_hash, transaction_id, secret_key, account_spending_counter) ==
    tx_Witness_new_account(genesis_hash, transaction_id, account_spending_counter, secret_key)

\* genesis_hash: &Hash arguments: the genesis blocks of three chains.
GenesisHashInputs == {BytesOf(j, HASH_SIZE) : j \in {1, 2, 3}}

\* transaction_id: &TransactionSignDataHash arguments.
SignDataHashInputs == {blake2b256(m) : m \in MessageInputs}

\* counter: u32 arguments.
CounterInputs == {1, 256}

\* The spending counters a session can hold.
SpendingCounters == {SpendingCounter_zero} \cup {SpendingCounter_from_u32(c) : c \in CounterInputs}

SpendingCounterZero ==
    Call("SpendingCounter.zero", <<>>, SpendingCounter_zero, FALSE)

SpendingCounterFromU32 ==
    \E counter \in CounterInputs :
        Call("SpendingCounter.from_u32", <<counter>>, SpendingCounter_from_u32(counter), FALSE)

WitnessForUtxo ==
    \E genesis_hash \in GenesisHashInputs, transaction_id \in SignDataHashInputs, secret_key \in PrivateKeys :
        Call("Witness.for_utxo", <<genesis_hash, transaction_id, secret_key>>,
             Witness_for_utxo(genesis_hash, transaction_id, secret_key), FALSE)

\* for_account with the counter the call before returned.
WitnessForAccount ==
    \E genesis_hash \in GenesisHashInputs, transaction_id \in SignDataHashInputs, secret_key \in PrivateKeys :
        /\ op \in {"SpendingCounter.zero", "SpendingCounter.from_u32"}
        /\ Call("Witness.for_account", <<genesis_hash, transaction_id, secret_key, res>>,
                Witness_for_account(genesis_hash, transaction_id, secret_key, res), TRUE)

NextWitness ==
    \/ SpendingCounterZero
    \/ SpendingCounterFromU32
    \/ WitnessForUtxo
    \/ WitnessForAccount

SpecWitness == InitSession /\ [][NextWitness]_vars

\* C19: the witness for_utxo returns is the signature of genesis_hash ||
\* sign_data_hash and verifies under the genesis hash it was made for and
\* under no other one; the witness for_account returns is the signature of
\* genesis_hash || sign_data_hash || spending_counter and verifies under
\* the genesis hash and the counter it was made for and under no other
\* genesis hash and no other counter.
C19_WitnessMessage ==
    /\ op = "Witness.for_utxo" =>
           /\ res.tag = "Utxo"
           /\ res.f0 = PrivateKey_sign(args[3], args[1] \o args[2])
           /\ \A g \in GenesisHashInputs :
                  tx_Witness_verify_utxo(res, PrivateKey_to_public(args[3]), g, args[2])
                      <=> g = args[1]
    /\ op = "Witness.for_account" =>
           /\ res.tag = "Account"
           /\ res.f0 = PrivateKey_sign(args[3], args[1] \o args[2] \o be_bytes(args[4], 4))
           /\ \A g \in GenesisHashInputs, c \in SpendingCounters :
                  tx_Witness_verify_account(res, PrivateKey_to_public(args[3]), g, args[2], c)
                      <=> (g = args[1] /\ c = args[4])

\* An account witness was made for the counter 256 that from_u32 returned:
\* it verifies for that counter and not for the counter 1.
C19_Witness ==
    /\ op = "Witness.for_account"
    /\ prev.op = "SpendingCounter.from_u32"
    /\ args[4] = 256
    /\ tx_Witness_verify_account(res, PrivateKey_to_public(args[3]), args[1], args[2], 256)
    /\ ~tx_Witness_verify_account(res, PrivateKey_to_public(args[3]), args[1], args[2], 1)

\* ---------------------------------------------------------------------
\* Multisig addresses from a merkle root
\* ---------------------------------------------------------------------

\* C21: Address.multisig_from_merkle_root(root, discrimination) succeeds
\* exactly when root has 32 bytes; the address is then a Multisig address
\* of the discrimination whose to_multisig_address().get_merkle_root() is
\* root; for every other length the result is the error 'Invalid merkle
\* root size' and carries no Address.
C21_MerkleRootLength ==
    /\ op = "Address.multisig_from_merkle_root" =>
           /\ res.ok <=> Len(args[1]) = 32
           /\ res.ok =>
                  /\ Address_get_kind(res.val) = "Multisig"
                  /\ Address_get_discrimination(res.val) = args[2]
                  /\ Address_to_multisig_address(res.val).some
                  /\ get_merkle_root(Address_to_multisig_address(res.val).val) = args[1]
           /\ ~res.ok => res = Err("Invalid merkle root size")
    /\ (op = "Address.to_multisig_address"
            /\ prev.op = "Address.multisig_from_merkle_root") =>
           /\ res.some
           /\ get_merkle_root(res.val) = prev.args[1]

\* A root of 32 bytes gave an address, and to_multisig_address of that
\* address gave a MultisigAddress whose merkle root is the root.
C21_Witness ==
    /\ op = "Address.to_multisig_address"
    /\ prev.op = "Address.multisig_from_merkle_root"
    /\ Len(prev.args[1]) = 32
    /\ prev.res.ok
    /\ args[1] = prev.res.val
    /\ res.some
    /\ get_merkle_root(res.val) = prev.args[1]

\* ---------------------------------------------------------------------
\* The kinds of a fragment
\* ---------------------------------------------------------------------

\* Fragment::is_initial
Fragment_is_initial(self) ==
    CASE self.tag = "Initial" -> TRUE
      [] OTHER -> FALSE

\* Fragment::is_transaction
Fragment_is_transaction(self) ==
    CASE self.tag = "Transaction" -> TRUE
      [] OTHER -> FALSE

\* Fragment::is_owner_stake_delegation
Fragment_is_owner_stake_delegation(self) ==
    CASE self.tag = "OwnerStakeDelegation" -> TRUE
      [] OTHER -> FALSE

\* Fragment::is_stake_delegation
Fragment_is_stake_delegation(self) ==
    CASE self.tag = "StakeDelegation" -> TRUE
      [] OTHER -> FALSE

\* Fragment::is_pool_registration
Fragment_is_pool_registration(self) ==
    CASE self.tag = "PoolRegistration" -> TRUE
      [] OTHER -> FALSE

\* Fragment::is_pool_retirement
Fragment_is_pool_retirement(self) ==
    CASE self.tag = "PoolRetirement" -> TRUE
      [] OTHER -> FALSE

\* An is_pool_update that is true of a retirement too
Fragment_is_pool_update_or_retirement(self) ==
    CASE self.tag \in {"PoolUpdate", "PoolRetirement"} -> TRUE
      [] OTHER -> FALSE

\* Fragment::is_pool_update
Fragment_is_pool_update(self) ==
    CASE self.tag = "PoolUpdate" -> TRUE
      [] OTHER -> FALSE

\* Fragment::is_old_utxo_declaration
Fragment_is_old_utxo_declaration(self) ==
    CASE self.tag = "OldUtxoDeclaration" -> TRUE
      [] OTHER -> FALSE

\* Fragment::is_update_proposal
Fragment_is_update_proposal(self) ==
    CASE self.tag = "UpdateProposal" -> TRUE
      [] OTHER -> FALSE

\* Fragment::is_update_vote
Fragment_is_update_vote(self) ==
    CASE self.tag = "UpdateVote" -> TRUE
      [] OTHER -> FALSE

\* The fragments of the sessions of this section: of every transaction
\* variant, and read from bytes.
KindFragments ==
    {Fragment_from_transaction(tx) : tx \in FragmentTransactions}
        \cup {Fragment_from_bytes(b).val : b \in {x \in FragmentByteInputs : Fragment_from_bytes(x).ok}}

\* from_bytes of bytes of the caller.
FragmentDecode ==
    \E bytes \in FragmentByteInputs :
        Call("Fragment.from_bytes", <<bytes>>, Fragment_from_bytes(bytes), FALSE)

\* get_transaction of the fragment the call before returned.
FragmentToTransaction ==
    \E f \in KindFragments :
        /\ ReturnedFragment(f)
        /\ Call("Fragment.get_transaction", <<f>>, Fragment_get_transaction(f), TRUE)

\* get_old_utxo_declaration of the fragment the call before returned.
FragmentToOldUtxoDeclaration ==
    \E f \in KindFragments :
        /\ ReturnedFragment(f)
        /\ Call("Fragment.get_old_utxo_declaration", <<f>>,
                Fragment_get_old_utxo_declaration(f), TRUE)

\* One predicate of the fragment the call before returned.
FragmentPredicateCall(o, predicate(_)) ==
    \E f \in KindFragments :
        /\ ReturnedFragment(f)
        /\ Call(o, <<f>>, predicate(f), TRUE)

FragmentIsInitial == FragmentPredicateCall("Fragment.is_initial", Fragment_is_initial)

FragmentIsTransaction == FragmentPredicateCall("Fragment.is_transaction", Fragment_is_transaction)

FragmentIsOwnerStakeDelegation == FragmentPredicateCall("Fragment.is_owner_stake_delegation", Fragment_is_owner_stake_delegation)

FragmentIsStakeDelegation == FragmentPredicateCall("Fragment.is_stake_delegation", Fragment_is_stake_delegation)

FragmentIsPoolRegistration == FragmentPredicateCall("Fragment.is_pool_registration", Fragment_is_pool_registration)

FragmentIsPoolRetirement == FragmentPredicateCall("Fragment.is_pool_retirement", Fragment_is_pool_retirement)

FragmentIsPoolUpdate == FragmentPredicateCall("Fragment.is_pool_update", Fragment_is_pool_update)

FragmentIsOldUtxoDeclaration == FragmentPredicateCall("Fragment.is_old_utxo_declaration", Fragment_is_old_utxo_declaration)

FragmentIsUpdateProposal == FragmentPredicateCall("Fragment.is_update_proposal", Fragment_is_update_proposal)

FragmentIsUpdateVote == FragmentPredicateCall("Fragment.is_update_vote", Fragment_is_update_vote)

NextFragmentKinds ==
    \/ FragmentFromTransaction
    \/ FragmentDecode
    \/ FragmentToTransaction
    \/ FragmentToOldUtxoDeclaration
    \/ FragmentIsInitial
    \/ FragmentIsTransaction
    \/ FragmentIsOwnerStakeDelegation
    \/ FragmentIsStakeDelegation
    \/ FragmentIsPoolRegistration
    \/ FragmentIsPoolRetirement
    \/ FragmentIsPoolUpdate
    \/ FragmentIsOldUtxoDeclaration
    \/ FragmentIsUpdateProposal
    \/ FragmentIsUpdateVote

SpecFragmentKinds == InitSession /\ [][NextFragmentKinds]_vars

\* C22: from_transaction maps the variant NoExtra to the fragment kind
\* Transaction and every other variant to the kind of its name;
\* get_transaction of the fragment from_transaction made of t is t; and
\* get_transaction of an Initial, OldUtxoDeclaration, UpdateProposal or
\* UpdateVote fragment is an error.
C22_TransactionFragments ==
    /\ op = "Fragment.from_transaction" =>
           res.tag = (IF args[1].tag = "NoExtra" THEN "Transaction" ELSE args[1].tag)
    /\ (op = "Fragment.get_transaction" /\ prev.op = "Fragment.from_transaction") =>
           res = Ok(prev.args[1])
    /\ (op = "Fragment.get_transaction"
            /\ args[1].tag \in {"Initial", "OldUtxoDeclaration", "UpdateProposal", "UpdateVote"}) =>
           /\ ~res.ok
           /\ res = Err("Invalid fragment type")

\* get_transaction gave back the pool update transaction with an input and
\* an output that from_transaction had made a fragment of.
C22_Witness ==
    /\ op = "Fragment.get_transaction"
    /\ prev.op = "Fragment.from_transaction"
    /\ prev.args[1].tag = "PoolUpdate"
    /\ Len(prev.args[1].inputs) > 0
    /\ Len(prev.args[1].outputs) > 0
    /\ args[1] = prev.res
    /\ args[1].tag = "PoolUpdate"
    /\ res = Ok(prev.args[1])

\* The predicates of a fragment that are true.
TruePredicates(f) ==
    {o \in 1 .. 10 :
        <<Fragment_is_initial(f), Fragment_is_transaction(f),
          Fragment_is_owner_stake_delegation(f), Fragment_is_stake_delegation(f),
          Fragment_is_pool_registration(f), Fragment_is_pool_retirement(f),
          Fragment_is_pool_update(f), Fragment_is_old_utxo_declaration(f),
          Fragment_is_update_proposal(f), Fragment_is_update_vote(f)>>[o]}

\* The predicate calls, in the order of TruePredicates.
PredicateOps ==
    <<"Fragment.is_initial", "Fragment.is_transaction", "Fragment.is_owner_stake_delegation",
      "Fragment.is_stake_delegation", "Fragment.is_pool_registration",
      "Fragment.is_pool_retirement", "Fragment.is_pool_update",
      "Fragment.is_old_utxo_declaration", "Fragment.is_update_proposal",
      "Fragment.is_update_vote">>

\* C23: of the ten predicates exactly one is true of a fragment, and a
\* predicate call returns true exactly for it; get_transaction succeeds
\* exactly when one of the six transaction-kind predicates is true, and
\* get_old_utxo_declaration exactly when is_old_utxo_declaration is.
C23_OnePredicate ==
    /\ \A f \in KindFragments :
           ReturnedFragment(f) => Cardinality(TruePredicates(f)) = 1
    /\ \A o \in 1 .. 10 :
           op = PredicateOps[o] =>
               /\ Cardinality(TruePredicates(args[1])) = 1
               /\ res = (o \in TruePredicates(args[1]))
    /\ op = "Fragment.get_transaction" =>
           (res.ok <=> TruePredicates(args[1]) \cap 2 .. 7 # {})
    /\ op = "Fragment.get_old_utxo_declaration" =>
           (res.ok <=> Fragment_is_old_utxo_declaration(args[1]))

\* is_pool_update was false of a pool retirement fragment.
C23_Witness ==
    /\ op = "Fragment.is_pool_update"
    /\ args[1].tag = "PoolRetirement"
    /\ res = FALSE
    /\ TruePredicates(args[1]) = {6}

\* ---------------------------------------------------------------------
\* Accounts and their identifiers
\* ---------------------------------------------------------------------

\* <[u8]>::copy_from_slice into an array of n bytes.
copy_from_slice(bytes, n) == [i \in 1 .. n |-> bytes[i]]

\* Account::to_address
Account_to_address(self, discriminant) ==
    LET kind == CASE self.tag = "Single" -> Kind_Account(self.f0)
                  [] self.tag = "Multi" -> Kind_Multisig(copy_from_slice(self.f0, HASH_SIZE))
    IN  chain_addr_Address(discrimination_into(discriminant), kind)

\* tx::UnspecifiedAccountIdentifier::to_single_account: the 32 bytes read
\* as a public key.
to_single_account(unspecified) ==
    IF Len(unspecified) = PUBLIC_KEY_SIZE THEN Some(unspecified) ELSE None

\* tx::UnspecifiedAccountIdentifier::to_multi_account: the 32 bytes read
\* as the hash of a multisig account.
to_multi_account(unspecified) == copy_from_slice(unspecified, HASH_SIZE)

\* hex::encode: two lowercase hexadecimal digits for each byte.
hex_encode(bytes) ==
    LET digit(n) == IF n < 10 THEN 48 + n ELSE 87 + n
    IN  [i \in 1 .. 2 * Len(bytes) |->
            IF i % 2 = 1 THEN digit(bytes[(i + 1) \div 2] \div 16)
            ELSE digit(bytes[i \div 2] % 16)]

\* AccountIdentifier::to_hex
AccountIdentifier_to_hex(self) == hex_encode(self)

\* A to_account_single that returns a Multi account
AccountIdentifier_to_account_single_multi(self) ==
    Ok(AccountIdentifier_Multi(to_multi_account(self)))

\* AccountIdentifier::to_account_single
AccountIdentifier_to_account_single(self) ==
    LET acc == to_single_account(self)
    IN  IF acc.some THEN Ok(AccountIdentifier_Single(acc.val))
        ELSE Err("can't be used as a public key for single account")

\* AccountIdentifier::to_account_multi
AccountIdentifier_to_account_multi(self) == AccountIdentifier_Multi(to_multi_account(self))

\* The accounts of the session: the ones of the keys and of the addresses of
\* the caller, and the ones their identifiers are read as.
Accounts ==
    LET given == {Account_single_from_public_key(k) : k \in PublicKeyInputs}
                     \cup {Account_from_address(a).val :
                               a \in {x \in Addresses : Account_from_address(x).ok}}
    IN  given
            \cup {AccountIdentifier_to_account_single(Account_to_identifier(acc)).val : acc \in given}
            \cup {AccountIdentifier_to_account_multi(Account_to_identifier(acc)) : acc \in given}

\* from_address of an address of any kind.
AccountOfAddress ==
    \E a \in Addresses :
        Call("Account.from_address", <<a>>, Account_from_address(a), FALSE)

\* The call before returned the Account acc.
ReturnedAccount(acc) ==
    \/ op = "Account.single_from_public_key" /\ res = acc
    \/ op \in {"Account.from_address", "AccountIdentifier.to_account_single"}
       /\ res.ok /\ res.val = acc
    \/ op = "AccountIdentifier.to_account_multi" /\ res = acc

AccountToAddress ==
    \E acc \in Accounts, d \in AddressDiscrimination :
        /\ ReturnedAccount(acc)
        /\ Call("Account.to_address", <<acc, d>>, Account_to_address(acc, d), TRUE)

AccountToIdentifier ==
    \E acc \in Accounts :
        /\ ReturnedAccount(acc)
        /\ Call("Account.to_identifier", <<acc>>, Account_to_identifier(acc), TRUE)

AccountIdentifierToAccountSingle ==
    /\ op = "Account.to_identifier"
    /\ Call("AccountIdentifier.to_account_single", <<res>>,
            AccountIdentifier_to_account_single(res), TRUE)

AccountIdentifierToAccountMulti ==
    /\ op = "Account.to_identifier"
    /\ Call("AccountIdentifier.to_account_multi", <<res>>,
            AccountIdentifier_to_account_multi(res), TRUE)

AccountIdentifierToHex ==
    /\ op = "Account.to_identifier"
    /\ Call("AccountIdentifier.to_hex", <<res>>, AccountIdentifier_to_hex(res), TRUE)

\* get_kind of the address to_address returned.
AccountAddressGetKind ==
    /\ op = "Account.to_address"
    /\ Call("Address.get_kind", <<res>>, Address_get_kind(res), TRUE)

NextAccount ==
    \/ AccountAddressGetKind
    \/ AccountIdentifierToHex
    \/ AccountSingleFromPublicKey
    \/ AccountOfAddress
    \/ AccountToAddress
    \/ AccountToIdentifier
    \/ AccountIdentifierToAccountSingle
    \/ AccountIdentifierToAccountMulti

SpecAccount == InitSession /\ [][NextAccount]_vars

\* The address a with the other discrimination.
OtherDiscrimination(a) ==
    [a EXCEPT !.discrimination =
        IF @ = discrimination_into("Test") THEN discrimination_into("Production")
        ELSE discrimination_into("Test")]

\* C24: Account.from_address(a) succeeds exactly when a is of kind Account
\* or Multisig and is the error 'Address is not account' for Single and
\* Group; to_address of the account with the discrimination of a is a; and
\* the account is the same for a and for a with the other discrimination.
C24_AccountOfAddress ==
    /\ op = "Account.from_address" =>
           /\ res.ok <=> Address_get_kind(args[1]) \in {"Account", "Multisig"}
           /\ ~res.ok =>
                  /\ Address_get_kind(args[1]) \in {"Single", "Group"}
                  /\ res = Err("Address is not account")
           /\ res.ok =>
                  /\ Account_to_address(res.val, Address_get_discrimination(args[1])) = args[1]
                  /\ res = Account_from_address(OtherDiscrimination(args[1]))
    /\ (op = "Account.to_address" /\ prev.op = "Account.from_address") =>
           /\ Address_get_discrimination(res) = args[2]
           /\ args[2] = Address_get_discrimination(prev.args[1]) => res = prev.args[1]
           /\ args[2] # Address_get_discrimination(prev.args[1]) =>
                  res = OtherDiscrimination(prev.args[1])

\* The account of a Production multisig address gave the address back
\* under to_address("Production").
C24_Witness ==
    /\ op = "Account.to_address"
    /\ prev.op = "Account.from_address"
    /\ Address_get_kind(prev.args[1]) = "Multisig"
    /\ Address_get_discrimination(prev.args[1]) = "Production"
    /\ args = <<prev.res.val, "Production">>
    /\ res = prev.args[1]

\* C25: the identifier of an account does not keep the kind of the
\* account: for the Single account of a public key pk, to_account_single
\* of the identifier is the Single account of pk; to_account_multi of any
\* identifier is a Multi account over the 32 bytes of the identifier and
\* never an error.
C25_IdentifierErasesKind ==
    /\ (op = "AccountIdentifier.to_account_single" /\ prev.op = "Account.to_identifier"
            /\ prev.args[1] \in {Account_single_from_public_key(k) : k \in PublicKeyInputs}) =>
           res = Ok(prev.args[1])
    /\ (op = "AccountIdentifier.to_account_multi" /\ prev.op = "Account.to_identifier") =>
           /\ res.tag = "Multi"
           /\ res.f0 = args[1]
           /\ res.f0 = prev.args[1].f0
           /\ Len(res.f0) = 32
    /\ op = "AccountIdentifier.to_account_multi" => res \in {AccountIdentifier_Multi(args[1])}

\* The identifier of the Single account of a public key was read as a
\* Multi account over the bytes of the key.
C25_Witness ==
    /\ op = "AccountIdentifier.to_account_multi"
    /\ prev.op = "Account.to_identifier"
    /\ prev.args[1].tag = "Single"
    /\ prev.args[1] \in {Account_single_from_public_key(k) : k \in PublicKeyInputs}
    /\ res = AccountIdentifier_Multi(prev.args[1].f0)

\* ---------------------------------------------------------------------
\* Raw keys of Bip32 keys, on the bytes of the keys
\* ---------------------------------------------------------------------

\* The bytes of a chain code.
CHAIN_CODE_SIZE == HASH_SIZE

\* The bytes of a SecretKey<Ed25519Bip32>: an extended secret, then the
\* chain code.
XPRV_SIZE == secret_key_size("Ed25519Extended") + CHAIN_CODE_SIZE

\* chain_crypto::SecretKey::<Ed25519Bip32>::from_binary
Bip32SecretKey_from_binary(bytes) ==
    IF Len(bytes) = XPRV_SIZE THEN Ok(bytes) ELSE Err("SizeInvalid")

\* chain_crypto::derive::to_raw_sk: the secret without its chain code.
to_raw_sk(xprv) == Take(xprv, Len(xprv) - CHAIN_CODE_SIZE)

\* chain_crypto::derive::to_raw_pk: the public key without its chain code.
to_raw_pk(xpub) == Take(xpub, Len(xpub) - CHAIN_CODE_SIZE)

\* chain_crypto: SecretKey<Ed25519Bip32>::to_public, on the bytes of the
\* key: the public key of the secret, then the chain code of the secret.
xprv_to_public(xprv) ==
    secret_to_public(Take(xprv, Len(xprv) - CHAIN_CODE_SIZE))
        \o Drop(xprv, Len(xprv) - CHAIN_CODE_SIZE)

\* Bip32PrivateKey::from_bytes
Bip32PrivateKey_from_bytes(bytes) == map_err_js(Bip32SecretKey_from_binary(bytes))

\* Bip32PrivateKey::as_bytes
Bip32PrivateKey_as_bytes(self) == self

\* A to_raw_key that wraps the raw secret as a normal key
Bip32PrivateKey_to_raw_key_normal(self) == EitherEd25519SecretKey_Normal(to_raw_sk(self))

\* Bip32PrivateKey::to_raw_key
Bip32PrivateKey_to_raw_key(self) == EitherEd25519SecretKey_Extended(to_raw_sk(self))

\* Bip32PrivateKey::to_public, on the bytes of the key
Bip32PrivateKey_to_public_key(self) == xprv_to_public(self)

\* Bip32PublicKey::to_raw_key
Bip32PublicKey_to_raw_key(self) == to_raw_pk(self)

\* The chain codes of the session.
ChainCodeInputs == {BytesOf(3 + 2 * c, CHAIN_CODE_SIZE) : c \in 1 .. 2 * KeyCount}

\* The Bip32 private keys of the session, as their bytes.
XprvInputs ==
    {secret \o cc : secret \in SecretInputs("Ed25519Extended"), cc \in ChainCodeInputs}

\* bytes: &[u8] arguments: the bytes of a key, and those bytes a byte
\* short, a byte long, and without the chain code.
XprvByteInputs ==
    XprvInputs
        \cup UNION {{Take(x, Len(x) - 1), x \o <<0>>, to_raw_sk(x)} :
                       x \in {y \in XprvInputs : Drop(y, Len(y) - CHAIN_CODE_SIZE) = BytesOf(5, CHAIN_CODE_SIZE)}}

Bip32PrivateKeyFromBytes ==
    \E bytes \in XprvByteInputs :
        Call("Bip32PrivateKey.from_bytes", <<bytes>>, Bip32PrivateKey_from_bytes(bytes), FALSE)

\* A call of a method of the Bip32PrivateKey from_bytes returned.
Bip32PrivateKeyCall(o, method(_)) ==
    /\ op = "Bip32PrivateKey.from_bytes"
    /\ res.ok
    /\ Call(o, <<res.val>>, method(res.val), TRUE)

Bip32PrivateKeyAsBytes == Bip32PrivateKeyCall("Bip32PrivateKey.as_bytes", Bip32PrivateKey_as_bytes)

Bip32PrivateKeyToRawKey ==
    Bip32PrivateKeyCall("Bip32PrivateKey.to_raw_key", Bip32PrivateKey_to_raw_key)

Bip32PrivateKeyToPublicKey ==
    Bip32PrivateKeyCall("Bip32PrivateKey.to_public", Bip32PrivateKey_to_public_key)

Bip32PublicKeyToRawKey ==
    /\ op = "Bip32PrivateKey.to_public"
    /\ Call("Bip32PublicKey.to_raw_key", <<res>>, Bip32PublicKey_to_raw_key(res), TRUE)

RawKeyToPublic ==
    /\ op = "Bip32PrivateKey.to_raw_key"
    /\ Call("PrivateKey.to_public", <<res>>, PrivateKey_to_public(res), TRUE)

RawKeyAsBytes ==
    /\ op = "Bip32PrivateKey.to_raw_key"
    /\ Call("PrivateKey.as_bytes", <<res>>, PrivateKey_as_bytes(res), TRUE)

RawKeySign ==
    /\ op = "Bip32PrivateKey.to_raw_key"
    /\ \E message \in MessageInputs :
           Call("PrivateKey.sign", <<res, message>>, PrivateKey_sign(res, message), TRUE)

\* verify under the raw key of the public key of a Bip32 key of the session.
RawKeyVerify ==
    /\ op = "PrivateKey.sign"
    /\ \E x \in XprvInputs, data \in {args[2], args[2] \o <<0>>} :
           LET key == Bip32PublicKey_to_raw_key(Bip32PrivateKey_to_public_key(x))
           IN  Call("PublicKey.verify", <<key, data, res>>,
                    PublicKey_verify(key, data, res), TRUE)

NextRawKey ==
    \/ Bip32PrivateKeyFromBytes
    \/ Bip32PrivateKeyAsBytes
    \/ Bip32PrivateKeyToRawKey
    \/ Bip32PrivateKeyToPublicKey
    \/ Bip32PublicKeyToRawKey
    \/ RawKeyToPublic
    \/ RawKeyAsBytes
    \/ RawKeySign
    \/ RawKeyVerify

SpecRawKey == InitSession /\ [][NextRawKey]_vars

\* C26: to_raw_key of a Bip32PrivateKey k is an Extended PrivateKey, and
\* its public key is the raw key of the public key of k:
\* k.to_raw_key().to_public() = k.to_public().to_raw_key().
C26_RawKeyCommutes ==
    /\ op = "Bip32PrivateKey.to_raw_key" =>
           /\ res.tag = "Extended"
           /\ PrivateKey_to_public(res)
                  = Bip32PublicKey_to_raw_key(Bip32PrivateKey_to_public_key(args[1]))
    /\ (op = "PrivateKey.to_public" /\ prev.op = "Bip32PrivateKey.to_raw_key") =>
           res = Bip32PublicKey_to_raw_key(Bip32PrivateKey_to_public_key(prev.args[1]))
    /\ (op = "Bip32PublicKey.to_raw_key" /\ prev.op = "Bip32PrivateKey.to_public") =>
           res = PrivateKey_to_public(Bip32PrivateKey_to_raw_key(prev.args[1]))
    /\ (op = "PublicKey.verify" /\ prev.op = "PrivateKey.sign") =>
           (res <=> (args[1] = PrivateKey_to_public(prev.args[1]) /\ args[2] = prev.args[2]))

\* The public key of the raw key of a Bip32 key is the raw key of its
\* public key, a key of 32 bytes that is not the chain code.
C26_Witness ==
    /\ op = "PrivateKey.to_public"
    /\ prev.op = "Bip32PrivateKey.to_raw_key"
    /\ args[1] = prev.res
    /\ args[1].tag = "Extended"
    /\ Len(res) = 32
    /\ res = Bip32PublicKey_to_raw_key(Bip32PrivateKey_to_public_key(prev.args[1]))
    /\ res # Drop(prev.args[1], Len(prev.args[1]) - 32)

\* ---------------------------------------------------------------------
\* The fields of a pool registration
\* ---------------------------------------------------------------------

\* PoolRegistration::start_validity
PoolRegistration_start_validity(self) == self.start_validity

\* PoolRegistration::owners: the keys, in their order.
PoolRegistration_owners(self) == [i \in 1 .. Len(self.owners) |-> self.owners[i]]

\* PoolRegistration::operators
PoolRegistration_operators(self) == [i \in 1 .. Len(self.operators) |-> self.operators[i]]

\* PoolRegistration::rewards
PoolRegistration_rewards(self) == self.rewards

\* PoolRegistration::reward_account
PoolRegistration_reward_account(self) ==
    IF self.reward_account.some THEN Some(self.reward_account.val) ELSE None

\* PoolRegistration::keys
PoolRegistration_keys(self) == self.keys

\* A call of an accessor of the registration the call before returned:
\* new's, or from_bytes's.
PoolRegistrationCall(o, accessor(_)) ==
    \/ /\ op = "PoolRegistration.new"
       /\ Call(o, <<res>>, accessor(res), TRUE)
    \/ /\ op = "PoolRegistration.from_bytes"
       /\ res.ok
       /\ Call(o, <<res.val>>, accessor(res.val), TRUE)

PoolRegistrationStartValidity ==
    PoolRegistrationCall("PoolRegistration.start_validity", PoolRegistration_start_validity)

PoolRegistrationOwners == PoolRegistrationCall("PoolRegistration.owners", PoolRegistration_owners)

PoolRegistrationOperators ==
    PoolRegistrationCall("PoolRegistration.operators", PoolRegistration_operators)

PoolRegistrationRewards == PoolRegistrationCall("PoolRegistration.rewards", PoolRegistration_rewards)

PoolRegistrationRewardAccount ==
    PoolRegistrationCall("PoolRegistration.reward_account", PoolRegistration_reward_account)

PoolRegistrationKeys == PoolRegistrationCall("PoolRegistration.keys", PoolRegistration_keys)

NextPoolRegistration ==
    \/ PoolRegistrationNew
    \/ PoolRegistrationAsBytes
    \/ PoolRegistrationFromBytes
    \/ PoolRegistrationStartValidity
    \/ PoolRegistrationOwners
    \/ PoolRegistrationOperators
    \/ PoolRegistrationRewards
    \/ PoolRegistrationRewardAccount
    \/ PoolRegistrationKeys

SpecPoolRegistration == InitSession /\ [][NextPoolRegistration]_vars

\* C27: a PoolRegistration built by PoolRegistration.new has the zero
\* TaxType as rewards and no reward account, whatever the arguments;
\* owners() and operators() return the keys given, in the order given, and
\* start_validity() and keys() the values given.
C27_NewRegistration ==
    /\ op = "PoolRegistration.new" =>
           /\ PoolRegistration_rewards(res) = TaxType_zero
           /\ PoolRegistration_reward_account(res) = None
           /\ PoolRegistration_owners(res) = args[2]
           /\ PoolRegistration_operators(res) = args[3]
           /\ PoolRegistration_start_validity(res) = args[5]
           /\ PoolRegistration_keys(res) = args[6]
    /\ prev.op = "PoolRegistration.new" =>
           /\ op = "PoolRegistration.rewards" => res = TaxType_zero
           /\ op = "PoolRegistration.reward_account" => res = None
           /\ op = "PoolRegistration.owners" => res = prev.args[2]
           /\ op = "PoolRegistration.operators" => res = prev.args[3]
           /\ op = "PoolRegistration.start_validity" => res = prev.args[5]
           /\ op = "PoolRegistration.keys" => res = prev.args[6]

\* owners() returned the two different owners given to new, in their
\* order, of a registration with an operator.
C27_Witness ==
    /\ op = "PoolRegistration.owners"
    /\ prev.op = "PoolRegistration.new"
    /\ args[1] = prev.res
    /\ Len(prev.args[2]) = 2
    /\ prev.args[2][1] # prev.args[2][2]
    /\ Len(prev.args[3]) = 1
    /\ res = prev.args[2]
    /\ PoolRegistration_rewards(args[1]) = TaxType_zero

\* ---------------------------------------------------------------------
\* Kind-specific addresses back to addresses
\* ---------------------------------------------------------------------

\* SingleAddress::to_base_address
SingleAddress_to_base_address(self) ==
    Address_single_from_public_key(get_spending_key(self), discrimination_from(self.f0))

\* A to_base_address that passes the account key as the spending key
GroupAddress_to_base_address_swapped(self) ==
    Address_delegation_from_public_key(get_account_key(self), get_spending_key(self),
                                       discrimination_from(self.f0))

\* GroupAddress::to_base_address
GroupAddress_to_base_address(self) ==
    Address_delegation_from_public_key(get_spending_key(self), get_account_key(self),
                                       discrimination_from(self.f0))

\* AccountAddress::to_base_address
AccountAddress_to_base_address(self) ==
    Address_account_from_public_key(get_account_key(self), discrimination_from(self.f0))

\* MultisigAddress::to_base_address
MultisigAddress_to_base_address(self) ==
    Address_multisig_from_merkle_root(get_merkle_root(self), discrimination_from(self.f0))

\* to_base_address of the kind-specific address the call before returned.
ToBaseAddress(o, type, to_base_address(_)) ==
    \E v \in {x \in KindAddresses : x.type = type} :
        /\ Projected(v)
        /\ Call(o, <<v>>, to_base_address(v), TRUE)

SingleAddressToBaseAddress ==
    ToBaseAddress("SingleAddress.to_base_address", "SingleAddress", SingleAddress_to_base_address)

GroupAddressToBaseAddress ==
    ToBaseAddress("GroupAddress.to_base_address", "GroupAddress", GroupAddress_to_base_address)

AccountAddressToBaseAddress ==
    ToBaseAddress("AccountAddress.to_base_address", "AccountAddress", AccountAddress_to_base_address)

MultisigAddressToBaseAddress ==
    ToBaseAddress("MultisigAddress.to_base_address", "MultisigAddress",
                  MultisigAddress_to_base_address)

NextBaseAddress ==
    \/ SingleFromPublicKey
    \/ DelegationFromPublicKey
    \/ AccountFromPublicKey
    \/ MultisigFromMerkleRoot
    \/ ToSingleAddress
    \/ ToGroupAddress
    \/ ToAccountAddress
    \/ ToMultisigAddress
    \/ SingleAddressToBaseAddress
    \/ GroupAddressToBaseAddress
    \/ AccountAddressToBaseAddress
    \/ MultisigAddressToBaseAddress

SpecBaseAddress == InitSession /\ [][NextBaseAddress]_vars

\* The Address to_base_address of a kind-specific address v gives, or
\* no Address when it is an error.
BaseAddressOf(v) ==
    CASE v.type = "SingleAddress" -> Some(SingleAddress_to_base_address(v))
      [] v.type = "GroupAddress" -> Some(GroupAddress_to_base_address(v))
      [] v.type = "AccountAddress" -> Some(AccountAddress_to_base_address(v))
      [] v.type = "MultisigAddress" ->
             IF MultisigAddress_to_base_address(v).ok
             THEN Some(MultisigAddress_to_base_address(v).val)
             ELSE None

\* C28: whichever of the four projections of an Address a returns a value
\* v, v.to_base_address() is a, with its discrimination, kind and keys, and
\* MultisigAddress.to_base_address is never an error.
C28_BaseAddress ==
    /\ (op \in ProjectionOps /\ res.some) => BaseAddressOf(res.val) = Some(args[1])
    /\ op \in {"SingleAddress.to_base_address", "GroupAddress.to_base_address",
               "AccountAddress.to_base_address"} =>
           /\ res = prev.args[1]
           /\ Address_get_discrimination(res) = Address_get_discrimination(prev.args[1])
           /\ Address_get_kind(res) = Address_get_kind(prev.args[1])
           /\ KeysOf(res) = KeysOf(prev.args[1])
    /\ op = "MultisigAddress.to_base_address" =>
           /\ res.ok
           /\ res.val = prev.args[1]

\* A Test Group address of two different keys was projected and
\* to_base_address gave it back.
C28_Witness ==
    /\ op = "GroupAddress.to_base_address"
    /\ prev.op = "Address.to_group_address"
    /\ args[1] = prev.res.val
    /\ Address_get_discrimination(prev.args[1]) = "Test"
    /\ get_spending_key(args[1]) # get_account_key(args[1])
    /\ res = prev.args[1]

\* ---------------------------------------------------------------------
\* PublicKeys as an append-only ordered collection
\* ---------------------------------------------------------------------

RECURSIVE AddAll(_)

\* A new collection after add of each key of keys, in their order.
AddAll(keys) ==
    IF keys = <<>> THEN PublicKeys_new
    ELSE PublicKeys_add(AddAll(SubSeq(keys, 1, Len(keys) - 1)), keys[Len(keys)])

\* C29: a new PublicKeys has size 0; after n add calls size() is n and
\* get(i), 0 <= i < n, is the key passed to the (i+1)-th add; add keeps the
\* keys the collection had at their indices, and size and get leave the
\* collection as it was.
C29_AppendOnly ==
    /\ op = "PublicKeys.new" => PublicKeys_size(res.self) = 0
    /\ op \in PublicKeysOps =>
           \A keys \in SeqsUpTo(PublicKeyInputs, MaxKeys) :
               res.self = AddAll(keys) =>
                   /\ PublicKeys_size(res.self) = Len(keys)
                   /\ \A i \in 0 .. Len(keys) - 1 :
                          PublicKeys_get(res.self, i) = NoPanic(keys[i + 1])
    /\ op \in PublicKeysOps => \E keys \in SeqsUpTo(PublicKeyInputs, MaxKeys) : res.self = AddAll(keys)
    /\ op = "PublicKeys.add" =>
           /\ PublicKeys_size(res.self) = PublicKeys_size(args[1]) + 1
           /\ \A i \in 0 .. PublicKeys_size(args[1]) - 1 :
                  PublicKeys_get(res.self, i) = PublicKeys_get(args[1], i)
           /\ PublicKeys_get(res.self, PublicKeys_size(args[1])) = NoPanic(args[2])
    /\ op = "PublicKeys.size" =>
           /\ res.self = args[1]
           /\ prev.op \in PublicKeysOps => res.ret = Len(prev.res.self)
    /\ op = "PublicKeys.get" =>
           /\ res.self = args[1]
           /\ (prev.op = "PublicKeys.add" /\ args[2] = Len(prev.args[1])) =>
                  res.ret = NoPanic(prev.args[2])
           /\ (prev.op = "PublicKeys.add" /\ args[2] < Len(prev.args[1])) =>
                  res.ret = PublicKeys_get(prev.args[1], args[2])

\* After the add of a key and of another one, get(0) returned the first
\* key of the collection of two keys.
C29_Witness ==
    /\ op = "PublicKeys.get"
    /\ prev.op = "PublicKeys.add"
    /\ args = <<prev.res.self, 0>>
    /\ Len(args[1]) = 2
    /\ args[1][1] # args[1][2]
    /\ prev.args[2] = args[1][2]
    /\ res.ret = NoPanic(prev.args[1][1])
    /\ res.self = args[1]

\* ---------------------------------------------------------------------
\* Balance
\* ---------------------------------------------------------------------

\* enum tx::Balance { Positive(Value), Negative(Value), Zero }
tx_Balance_Positive(v) == [tag |-> "Positive", f0 |-> v]

tx_Balance_Negative(v) == [tag |-> "Negative", f0 |-> v]

tx_Balance_Zero == [tag |-> "Zero"]

\* impl From<tx::Balance> for Balance: struct Balance(tx::Balance)
Balance_from(balance) == balance

\* Balance::get_sign
Balance_get_sign(self) ==
    CASE self.tag = "Positive" -> "positive"
      [] self.tag = "Negative" -> "negative"
      [] self.tag = "Zero" -> "zero"

\* Balance::is_positive
Balance_is_positive(self) ==
    CASE self.tag = "Positive" -> TRUE
      [] OTHER -> FALSE

\* Balance::is_negative
Balance_is_negative(self) ==
    CASE self.tag = "Negative" -> TRUE
      [] OTHER -> FALSE

\* Balance::is_zero
Balance_is_zero(self) ==
    CASE self.tag = "Zero" -> TRUE
      [] OTHER -> FALSE

\* A get_value that is the value of a positive balance only
Balance_get_value_positive(self) ==
    CASE self.tag = "Positive" -> self.f0
      [] OTHER -> 0

\* Balance::get_value
Balance_get_value(self) ==
    CASE self.tag = "Positive" -> self.f0
      [] self.tag = "Negative" -> self.f0
      [] self.tag = "Zero" -> 0

\* The balances the library returns: of every sign, of the smallest and
\* of the largest value.
BalanceInputs ==
    {tx_Balance_Zero}
        \cup {tx_Balance_Positive(v) : v \in {1, 2, U64Max}}
        \cup {tx_Balance_Negative(v) : v \in {1, 2, U64Max}}

BalanceAccessors ==
    {"Balance.get_sign", "Balance.is_positive", "Balance.is_negative", "Balance.is_zero",
     "Balance.get_value"}

BalanceFrom ==
    \E balance \in BalanceInputs :
        Call("Balance.from", <<balance>>, Balance_from(balance), FALSE)

\* A call of an accessor of the Balance the call before returned or was
\* made on.
BalanceCall(o, accessor(_)) ==
    \/ /\ op = "Balance.from"
       /\ Call(o, <<res>>, accessor(res), TRUE)
    \/ /\ op \in BalanceAccessors
       /\ Call(o, <<args[1]>>, accessor(args[1]), TRUE)

BalanceGetSign == BalanceCall("Balance.get_sign", Balance_get_sign)

BalanceIsPositive == BalanceCall("Balance.is_positive", Balance_is_positive)

BalanceIsNegative == BalanceCall("Balance.is_negative", Balance_is_negative)

BalanceIsZero == BalanceCall("Balance.is_zero", Balance_is_zero)

BalanceGetValue == BalanceCall("Balance.get_value", Balance_get_value)

NextBalance ==
    \/ BalanceFrom
    \/ BalanceGetSign
    \/ BalanceIsPositive
    \/ BalanceIsNegative
    \/ BalanceIsZero
    \/ BalanceGetValue

SpecBalance == InitSession /\ [][NextBalance]_vars

\* The sign whose predicate the operation o is.
SignOfPredicate(o) ==
    CASE o = "Balance.is_positive" -> "positive"
      [] o = "Balance.is_negative" -> "negative"
      [] o = "Balance.is_zero" -> "zero"

BalancePredicates == {"Balance.is_positive", "Balance.is_negative", "Balance.is_zero"}

\* C30: of is_positive, is_negative and is_zero exactly one is true of a
\* Balance, and get_sign is the string of that one; get_value is the value
\* without the sign, 0 for a Zero balance, and the same for a Positive and
\* a Negative balance of one value.
C30_BalanceSign ==
    /\ op = "Balance.from" =>
           Cardinality({i \in 1 .. 3 : <<Balance_is_positive(res), Balance_is_negative(res),
                                            Balance_is_zero(res)>>[i]}) = 1
    /\ op \in BalancePredicates =>
           /\ res = (Balance_get_sign(args[1]) = SignOfPredicate(op))
           /\ (prev.op \in BalancePredicates /\ prev.op # op) => ~(res /\ prev.res)
           /\ prev.op = "Balance.get_sign" => (res <=> prev.res = SignOfPredicate(op))
    /\ op = "Balance.get_sign" =>
           /\ res \in {"positive", "negative", "zero"}
           /\ prev.op \in BalancePredicates => (prev.res <=> res = SignOfPredicate(prev.op))
    /\ op = "Balance.get_value" =>
           /\ Balance_is_zero(args[1]) => res = 0
           /\ ~Balance_is_zero(args[1]) =>
                  /\ res = args[1].f0
                  /\ res = Balance_get_value(tx_Balance_Positive(args[1].f0))
                  /\ res = Balance_get_value(tx_Balance_Negative(args[1].f0))

\* get_value of the Negative balance of the largest value, which
\* is_negative had found negative, was that value.
C30_Witness ==
    /\ op = "Balance.get_value"
    /\ prev.op = "Balance.is_negative"
    /\ prev.res = TRUE
    /\ args[1] = tx_Balance_Negative(U64Max)
    /\ res = U64Max
    /\ res = Balance_get_value(tx_Balance_Positive(U64Max))

====
